---- MODULE Spec2Model ----
(***************************************************************************)
(* Model of github_pr_review: the PRAnalyzer aggregation and text          *)
(* extraction layer (src/github_pr_review/analyzer.py) and the record      *)
(* construction of GitHubPRClient (src/github_pr_review/github_client.py). *)
(*                                                                         *)
(* Encoding of Python values:                                              *)
(*   None            the empty tuple <<>>                                  *)
(*   a present value the 1-tuple <<v>>           (Optional fields)         *)
(*   str             a tuple of one-character strings                      *)
(*   float           an exact fraction <<num, den>> in lowest terms        *)
(*   outcome         [val |-> v] for a return, [exc |-> e] for a raise     *)
(***************************************************************************)
EXTENDS Integers, Sequences, FiniteSets, TLC

VARIABLES pr_data, ret

vars == <<pr_data, ret>>

----------------------------------------------------------------------------
(* Bounds of the model *)

MaxPRs == 3
MaxHours == 2
MaxTextPRs == 2
MaxMonthPRs == 2
MaxAuthors == 6
MaxGroupPRs == 3
MaxOptionalPRs == 2
MaxBusinessPRs == 2
MaxAllPRs == 1
MaxCommits == 2
MaxPulls == 2
MaxRepos == 2
MaxCalls == 3

----------------------------------------------------------------------------
(* Python values *)

None == <<>>
Some(v) == <<v>>
Ok(v) == [val |-> v]
Raised(e) == [exc |-> e]
IsOk(o) == "val" \in DOMAIN o

RECURSIVE GCD(_, _)
GCD(a, b) == IF b = 0 THEN a ELSE GCD(b, a % b)

\* the float n / d, kept exact
Rat(n, d) == LET g == GCD(n, d) IN <<n \div g, d \div g>>

RECURSIVE SumSeq(_)
SumSeq(s) == IF s = <<>> THEN 0 ELSE Head(s) + SumSeq(Tail(s))


\* sequences over S of length at most n
SeqUpTo(S, n) == UNION {[1..k -> S] : k \in 0..n}

\* the exception that ends a loop over calls: that of the first call to raise
FirstRaised(outcomes) ==
    outcomes[CHOOSE i \in 1..Len(outcomes) :
                /\ ~IsOk(outcomes[i])
                /\ \A j \in 1..(i - 1) : IsOk(outcomes[j])]

----------------------------------------------------------------------------
(* statistics.mean / statistics.median *)

mean(times) == Rat(SumSeq(times), Len(times))

median(times) ==
    LET data == SortSeq(times, LAMBDA a, b : a < b)
        n == Len(data)
    IN IF n % 2 = 1
       THEN Rat(data[(n \div 2) + 1], 1)
       ELSE Rat(data[n \div 2] + data[(n \div 2) + 1], 2)

----------------------------------------------------------------------------
(* PRAnalyzer: counts and time-to-close *)

get_total_prs(prs) == Len(prs)

get_merged_prs_count(prs) ==
    Len(SelectSeq(prs, LAMBDA pr : pr.merged))

get_closed_prs_count_NoMergedCheck(prs) ==
    Len(SelectSeq(prs, LAMBDA pr : pr.state = "closed"))

get_closed_prs_count(prs) ==
    Len(SelectSeq(prs, LAMBDA pr : pr.state = "closed" /\ ~pr.merged))

get_open_prs_count(prs) ==
    Len(SelectSeq(prs, LAMBDA pr : pr.state = "open"))

\* times = [pr["time_to_close_hours"] for pr in self.pr_data if pr["time_to_close_hours"]]
TruthyTimes(prs) ==
    LET kept == SelectSeq(prs, LAMBDA pr : /\ pr.time_to_close_hours # None
                                       /\ pr.time_to_close_hours[1] # 0)
    IN [i \in 1..Len(kept) |-> kept[i].time_to_close_hours[1]]

get_average_time_to_close_ZeroWhenNone(prs) ==
    LET times == TruthyTimes(prs)
    IN IF times # <<>> THEN Some(mean(times)) ELSE Some(Rat(0, 1))

get_average_time_to_close(prs) ==
    LET times == TruthyTimes(prs)
    IN IF times # <<>> THEN Some(mean(times)) ELSE None

get_median_time_to_close(prs) ==
    LET times == TruthyTimes(prs)
    IN IF times # <<>> THEN Some(median(times)) ELSE None

----------------------------------------------------------------------------
(* Characters and strings *)

UpperAlpha == <<"A", "B", "C", "D", "E", "F", "G", "H", "I", "J", "K", "L", "M", "N", "O", "P", "Q", "R", "S", "T", "U", "V", "W", "X", "Y", "Z">>
LowerAlpha == <<"a", "b", "c", "d", "e", "f", "g", "h", "i", "j", "k", "l", "m", "n", "o", "p", "q", "r", "s", "t", "u", "v", "w", "x", "y", "z">>
Digits == <<"0", "1", "2", "3", "4", "5", "6", "7", "8", "9">>
\* the characters of the texts, in code point order
Ascii == <<" ", "#", "(", ")", "-", ".", "/", "0", "1", "2", "3", "4", "5", "6", "7", "8", "9", ":", "A", "B", "C", "D", "E", "F", "G", "H", "I", "J", "K", "L", "M", "N", "O", "P", "Q", "R", "S", "T", "U", "V", "W", "X", "Y", "Z", "_", "a", "b", "c", "d", "e", "f", "g", "h", "i", "j", "k", "l", "m", "n", "o", "p", "q", "r", "s", "t", "u", "v", "w", "x", "y", "z">>

Range(s) == {s[i] : i \in 1..Len(s)}
IndexOf(s, c) == CHOOSE i \in 1..Len(s) : s[i] = c

\* [A-Z], [a-z], \d and \w
UpperClass == Range(UpperAlpha)
LowerClass == Range(LowerAlpha)
DigitClass == Range(Digits)

\* ord(c) and c.lower(), tabulated over the characters of the texts
OrdTable == [c \in Range(Ascii) |-> IndexOf(Ascii, c)]
LowerTable == [c \in Range(Ascii) |->
                 IF c \in UpperClass THEN LowerAlpha[IndexOf(UpperAlpha, c)] ELSE c]

Ord(c) == OrdTable[c]
LowerChar(c) == LowerTable[c]
\* str.lower()
lower(s) == [i \in 1..Len(s) |-> LowerChar(s[i])]

\* a < b on str: by code point, a proper prefix first
RECURSIVE StrLess(_, _)
StrLess(a, b) ==
    IF b = <<>> THEN FALSE
    ELSE IF a = <<>> THEN TRUE
    ELSE IF Head(a) # Head(b) THEN Ord(Head(a)) < Ord(Head(b))
    ELSE StrLess(Tail(a), Tail(b))

\* sorted(list(s)) of a set of str
RECURSIVE sorted(_)
sorted(S) ==
    IF S = {} THEN <<>>
    ELSE LET m == CHOOSE x \in S : \A y \in S \ {x} : StrLess(x, y)
         IN <<m>> \o sorted(S \ {m})

\* the literal lit stands in text at position pos
LitAt(text, pos, lit) ==
    /\ pos + Len(lit) - 1 <= Len(text)
    /\ \A i \in 1..Len(lit) : text[pos + i - 1] = lit[i]

\* the same under re.IGNORECASE (lit is lower case)
LitAtIgnoreCase(text, pos, lit) ==
    /\ pos + Len(lit) - 1 <= Len(text)
    /\ \A i \in 1..Len(lit) : LowerChar(text[pos + i - 1]) = lit[i]

\* first position at or after pos whose character is not in the class:
\* the end of a greedy  [class]*  starting at pos
RECURSIVE RunEnd(_, _, _)
RunEnd(text, pos, class) ==
    IF pos <= Len(text) /\ text[pos] \in class
    THEN RunEnd(text, pos + 1, class)
    ELSE pos

----------------------------------------------------------------------------
(* Regular expressions.  A match is [stop |-> position after the match,    *)
(* group |-> text of group 1]; NoMatch when the pattern does not match at  *)
(* the position.                                                           *)

NoMatch == <<>>
Match(stop, group) == <<[stop |-> stop, group |-> group]>>

\* (feat|fix|docs?|hotfix|chore|refactor|test|ci|perf|style|build|revert):
\* the alternatives in the order the regex tries them, docs? as docs, doc
TypeAlternatives ==
    << <<"f", "e", "a", "t">>,
       <<"f", "i", "x">>,
       <<"d", "o", "c", "s">>,
       <<"d", "o", "c">>,
       <<"h", "o", "t", "f", "i", "x">>,
       <<"c", "h", "o", "r", "e">>,
       <<"r", "e", "f", "a", "c", "t", "o", "r">>,
       <<"t", "e", "s", "t">>,
       <<"c", "i">>,
       <<"p", "e", "r", "f">>,
       <<"s", "t", "y", "l", "e">>,
       <<"b", "u", "i", "l", "d">>,
       <<"r", "e", "v", "e", "r", "t">> >>

\* the group of alternatives tried at pos: the first one that matches
TypeGroupAt(text, pos) ==
    LET ks == {k \in 1..Len(TypeAlternatives) :
                 LitAtIgnoreCase(text, pos, TypeAlternatives[k])}
    IN IF ks = {} THEN NoMatch
       ELSE LET k == CHOOSE k \in ks : \A j \in ks : k <= j
                stop == pos + Len(TypeAlternatives[k])
            IN Match(stop, SubSeq(text, pos, stop - 1))

\* COMMIT_TYPE_PATTERN = ^(feat|...) with re.IGNORECASE and no re.MULTILINE:
\* ^ holds at the start of the string only
COMMIT_TYPE_PATTERN(text, pos) ==
    IF pos = 1 THEN TypeGroupAt(text, pos) ELSE NoMatch

\* "github.com/"
Lit_github_com == <<"g", "i", "t", "h", "u", "b", ".", "c", "o", "m", "/">>
\* "/issues/"
Lit_issues == <<"/", "i", "s", "s", "u", "e", "s", "/">>
\* ".atlassian.net/browse/"
Lit_atlassian == <<".", "a", "t", "l", "a", "s", "s", "i", "a", "n", ".", "n", "e", "t", "/", "b", "r", "o", "w", "s", "e", "/">>

\* GITHUB_ISSUE_PATTERN = #(\d+)
GITHUB_ISSUE_PATTERN(text, pos) ==
    IF pos <= Len(text) /\ text[pos] = "#"
    THEN LET stop == RunEnd(text, pos + 1, DigitClass)
         IN IF stop > pos + 1
            THEN Match(stop, SubSeq(text, pos + 1, stop - 1)) ELSE NoMatch
    ELSE NoMatch

\* [\w-]
SlugClass == UpperClass \cup LowerClass \cup DigitClass \cup {"_", "-"}

GITHUB_ISSUE_URL_PATTERN_AnyHost(text, pos) ==
    LET owner == RunEnd(text, pos, SlugClass \cup {"."})
        ownerEnd == RunEnd(text, owner + 1, SlugClass)
        repoEnd == RunEnd(text, ownerEnd + 1, SlugClass)
        number == repoEnd + Len(Lit_issues)
        stop == RunEnd(text, number, DigitClass)
    IN IF /\ owner > pos
          /\ LitAt(text, owner, <<"/">>)
          /\ ownerEnd > owner + 1
          /\ LitAt(text, ownerEnd, <<"/">>)
          /\ repoEnd > ownerEnd + 1
          /\ LitAt(text, repoEnd, Lit_issues)
          /\ stop > number
       THEN Match(stop, SubSeq(text, number, stop - 1)) ELSE NoMatch

\* GITHUB_ISSUE_URL_PATTERN = github\.com/[\w-]+/[\w-]+/issues/(\d+)
\* ("/" is outside [\w-], so each greedy [\w-]+ ends at its first "/")
GITHUB_ISSUE_URL_PATTERN(text, pos) ==
    LET owner == pos + Len(Lit_github_com)
        ownerEnd == RunEnd(text, owner, SlugClass)
        repoEnd == RunEnd(text, ownerEnd + 1, SlugClass)
        number == repoEnd + Len(Lit_issues)
        stop == RunEnd(text, number, DigitClass)
    IN IF /\ LitAt(text, pos, Lit_github_com)
          /\ ownerEnd > owner
          /\ LitAt(text, ownerEnd, <<"/">>)
          /\ repoEnd > ownerEnd + 1
          /\ LitAt(text, repoEnd, Lit_issues)
          /\ stop > number
       THEN Match(stop, SubSeq(text, number, stop - 1)) ELSE NoMatch

\* JIRA_PATTERN = ([A-Z]+-\d+)
JIRA_PATTERN(text, pos) ==
    LET dash == RunEnd(text, pos, UpperClass)
        stop == RunEnd(text, dash + 1, DigitClass)
    IN IF dash > pos /\ LitAt(text, dash, <<"-">>) /\ stop > dash + 1
       THEN Match(stop, SubSeq(text, pos, stop - 1)) ELSE NoMatch

\* [a-zA-Z0-9.-]
HostClass == UpperClass \cup LowerClass \cup DigitClass \cup {".", "-"}

\* JIRA_URL_PATTERN = [a-zA-Z0-9.-]+\.atlassian\.net/browse/([A-Z]+-\d+):
\* the greedy host gives characters back until the rest matches
JIRA_URL_PATTERN(text, pos) ==
    LET hostEnd == RunEnd(text, pos, HostClass)
        ks == {k \in (pos + 1)..hostEnd :
                 /\ LitAt(text, k, Lit_atlassian)
                 /\ JIRA_PATTERN(text, k + Len(Lit_atlassian)) # NoMatch}
    IN IF ks = {} THEN NoMatch
       ELSE LET k == CHOOSE k \in ks : \A j \in ks : j <= k
            IN JIRA_PATTERN(text, k + Len(Lit_atlassian))

PatternAt(pat, text, pos) ==
    CASE pat = "COMMIT_TYPE_PATTERN" -> COMMIT_TYPE_PATTERN(text, pos)
      [] pat = "GITHUB_ISSUE_PATTERN" -> GITHUB_ISSUE_PATTERN(text, pos)
      [] pat = "GITHUB_ISSUE_URL_PATTERN" -> GITHUB_ISSUE_URL_PATTERN(text, pos)
      [] pat = "JIRA_PATTERN" -> JIRA_PATTERN(text, pos)
      [] pat = "JIRA_URL_PATTERN" -> JIRA_URL_PATTERN(text, pos)


\* pattern.finditer(text) / pattern.findall(text) with one group: the groups
\* of the leftmost non-overlapping matches, scanning from pos
RECURSIVE re_findall(_, _, _)
\* the scan goes on after the attempt m at pos
FindallAfter(pat, text, pos, m) ==
    IF m = NoMatch THEN re_findall(pat, text, pos + 1)
    ELSE <<m[1].group>> \o
         re_findall(pat, text, IF m[1].stop = pos THEN pos + 1 ELSE m[1].stop)

re_findall(pat, text, pos) ==
    IF pos > Len(text) + 1 THEN <<>>
    ELSE FindallAfter(pat, text, pos, PatternAt(pat, text, pos))

----------------------------------------------------------------------------
(* PRAnalyzer: conventional commit types *)

Vocabulary ==
    { <<"f", "e", "a", "t">>, <<"f", "i", "x">>, <<"d", "o", "c", "s">>,
      <<"c", "h", "o", "r", "e">>, <<"r", "e", "f", "a", "c", "t", "o", "r">>,
      <<"t", "e", "s", "t">>, <<"c", "i">>, <<"p", "e", "r", "f">>,
      <<"s", "t", "y", "l", "e">>, <<"b", "u", "i", "l", "d">>,
      <<"r", "e", "v", "e", "r", "t">> }

\* COMMIT_TYPE_ALIASES.get(commit_type, commit_type)
COMMIT_TYPE_ALIASES(commit_type) ==
    IF commit_type = <<"d", "o", "c">> THEN <<"d", "o", "c", "s">>
    ELSE IF commit_type = <<"h", "o", "t", "f", "i", "x">> THEN <<"f", "i", "x">>
    ELSE commit_type

normalize_commit_type_NoAlias(commit_type) == lower(commit_type)

normalize_commit_type(commit_type) == COMMIT_TYPE_ALIASES(lower(commit_type))

\* the token a title or a commit message appends: at most one
MatchToken(text) ==
    LET m == PatternAt("COMMIT_TYPE_PATTERN", text, 1)
    IN IF m # NoMatch THEN <<normalize_commit_type(m[1].group)>> ELSE <<>>

\* the tokens the description appends
FinditerTokens(text) ==
    LET groups == re_findall("COMMIT_TYPE_PATTERN", text, 1)
    IN [i \in 1..Len(groups) |-> normalize_commit_type(groups[i])]

RECURSIVE MessageTokens(_)
MessageTokens(messages) ==
    IF messages = <<>> THEN <<>>
    ELSE MatchToken(Head(messages)) \o MessageTokens(Tail(messages))

extract_conventional_commit_types_DescriptionFirst(pr) ==
    IF "description" \notin DOMAIN pr THEN Raised("KeyError")
    ELSE IF pr.description = None THEN Raised("TypeError")
    ELSE Ok(FinditerTokens(pr.description[1])
            \o MatchToken(pr.title)
            \o (IF "commit_messages" \in DOMAIN pr
                THEN MessageTokens(pr.commit_messages) ELSE <<>>))

\* pr["description"] raises KeyError when the key is absent, the regex
\* functions raise TypeError on None
extract_conventional_commit_types(pr) ==
    IF "description" \notin DOMAIN pr THEN Raised("KeyError")
    ELSE IF pr.description = None THEN Raised("TypeError")
    ELSE Ok(MatchToken(pr.title)
            \o FinditerTokens(pr.description[1])
            \o (IF "commit_messages" \in DOMAIN pr
                THEN MessageTokens(pr.commit_messages) ELSE <<>>))

\* a dict in insertion order: a sequence of <<key, value>> pairs
DictKeys(d) == {d[i][1] : i \in 1..Len(d)}
DictGet(d, k, default) ==
    IF k \in DictKeys(d) THEN d[CHOOSE i \in 1..Len(d) : d[i][1] = k][2]
    ELSE default
\* defaultdict(int): d[k] += 1
Increment(d, k) ==
    IF k \in DictKeys(d)
    THEN [i \in 1..Len(d) |-> IF d[i][1] = k THEN <<k, d[i][2] + 1>> ELSE d[i]]
    ELSE Append(d, <<k, 1>>)
RECURSIVE IncrementAll(_, _)
IncrementAll(d, keys) ==
    IF keys = <<>> THEN d ELSE IncrementAll(Increment(d, Head(keys)), Tail(keys))

RemoveAt(s, i) == SubSeq(s, 1, i - 1) \o SubSeq(s, i + 1, Len(s))

RECURSIVE SortedByValue_Ascending(_)
SortedByValue_Ascending(items) ==
    IF items = <<>> THEN <<>>
    ELSE LET i == CHOOSE i \in 1..Len(items) :
                    /\ \A j \in 1..Len(items) : items[i][2] <= items[j][2]
                    /\ \A j \in 1..(i - 1) : items[i][2] < items[j][2]
         IN <<items[i]>> \o SortedByValue_Ascending(RemoveAt(items, i))

\* sorted(d.items(), key=lambda x: x[1], reverse=True): descending by value,
\* stable (equal values keep their order)
RECURSIVE SortedByValueReverse(_)
SortedByValueReverse(items) ==
    IF items = <<>> THEN <<>>
    ELSE LET i == CHOOSE i \in 1..Len(items) :
                    /\ \A j \in 1..Len(items) : items[j][2] <= items[i][2]
                    /\ \A j \in 1..(i - 1) : items[j][2] < items[i][2]
         IN <<items[i]>> \o SortedByValueReverse(RemoveAt(items, i))

\* the loop of get_conventional_commits_analysis over prs, all of which
\* extract without raising
RECURSIVE CommitTypeCounts(_, _)
CommitTypeCounts(prs, d) ==
    IF prs = <<>> THEN d
    ELSE CommitTypeCounts(Tail(prs),
            IncrementAll(d, extract_conventional_commit_types(Head(prs)).val))

feat_fix_ratio_NoGuard(feat_count, fix_count) ==
    IF fix_count > 0 THEN Some(Rat(feat_count, fix_count)) ELSE Some(Rat(0, 1))

feat_fix_ratio(feat_count, fix_count) ==
    IF fix_count > 0 THEN Some(Rat(feat_count, fix_count)) ELSE None

get_conventional_commits_analysis(prs) ==
    IF \E i \in 1..Len(prs) : ~IsOk(extract_conventional_commit_types(prs[i]))
    THEN FirstRaised([i \in 1..Len(prs) |->
                        extract_conventional_commit_types(prs[i])])
    ELSE
    LET commit_type_counts == CommitTypeCounts(prs, <<>>)
        prs_with_conventional_commits ==
            Len(SelectSeq(prs,
                LAMBDA pr : extract_conventional_commit_types(pr).val # <<>>))
        total_types == SumSeq([i \in 1..Len(commit_type_counts) |->
                                 commit_type_counts[i][2]])
        feat_count == DictGet(commit_type_counts, <<"f", "e", "a", "t">>, 0)
        fix_count == DictGet(commit_type_counts, <<"f", "i", "x">>, 0)
    IN Ok([commit_types |-> SortedByValueReverse(commit_type_counts),
           prs_with_conventional_commits |-> prs_with_conventional_commits,
           percentage_with_conventional |->
               IF prs # <<>>
               THEN Rat(prs_with_conventional_commits * 100, Len(prs))
               ELSE Rat(0, 1),
           total_typed_commits |-> total_types,
           feat_count |-> feat_count,
           fix_count |-> fix_count,
           feat_fix_ratio |-> feat_fix_ratio(feat_count, fix_count)])

----------------------------------------------------------------------------
(* PRAnalyzer: work items *)

\* the regex functions raise TypeError on None
extract_work_items(description) ==
    IF description = None THEN Raised("TypeError")
    ELSE LET text == description[1]
             github_issues ==
                 Range(re_findall("GITHUB_ISSUE_PATTERN", text, 1))
                 \cup Range(re_findall("GITHUB_ISSUE_URL_PATTERN", text, 1))
             jira_tickets ==
                 Range(re_findall("JIRA_PATTERN", text, 1))
                 \cup Range(re_findall("JIRA_URL_PATTERN", text, 1))
         IN Ok([github_issues |-> sorted(github_issues),
                jira_tickets |-> sorted(jira_tickets)])

\* one pass of the loop of get_work_item_analysis: acc is
\* <<total_github_issues, total_jira_tickets, prs_with_work_items>>
AddWorkItems_SumPerPR(acc, work_items) ==
    <<acc[1] \cup {<<acc[3], x>> : x \in Range(work_items.github_issues)},
      acc[2] \cup {<<acc[3], x>> : x \in Range(work_items.jira_tickets)},
      IF work_items.github_issues # <<>> \/ work_items.jira_tickets # <<>>
      THEN acc[3] + 1 ELSE acc[3]>>

AddWorkItems(acc, work_items) ==
    <<acc[1] \cup Range(work_items.github_issues),
      acc[2] \cup Range(work_items.jira_tickets),
      IF work_items.github_issues # <<>> \/ work_items.jira_tickets # <<>>
      THEN acc[3] + 1 ELSE acc[3]>>

\* the loop over prs, all of which extract without raising
RECURSIVE WorkItemTotals(_, _)
WorkItemTotals(prs, acc) ==
    IF prs = <<>> THEN acc
    ELSE WorkItemTotals(Tail(prs),
            AddWorkItems(acc, extract_work_items(Head(prs).description).val))

\* the dictionary get_work_item_analysis returns
WorkItemAnalysis(prs, totals) ==
    [total_github_issues |-> Cardinality(totals[1]),
     total_jira_tickets |-> Cardinality(totals[2]),
     prs_with_work_items |-> totals[3],
     prs_without_work_items |-> Len(prs) - totals[3],
     percentage_with_work_items |->
         IF prs # <<>> THEN Rat(totals[3] * 100, Len(prs)) ELSE Rat(0, 1)]

\* self.extract_work_items(pr["description"]): KeyError when the key is absent
WorkItemsOf(pr) ==
    IF "description" \notin DOMAIN pr THEN Raised("KeyError")
    ELSE extract_work_items(pr.description)

get_work_item_analysis(prs) ==
    IF \E i \in 1..Len(prs) : ~IsOk(WorkItemsOf(prs[i]))
    THEN FirstRaised([i \in 1..Len(prs) |-> WorkItemsOf(prs[i])])
    ELSE Ok(WorkItemAnalysis(prs, WorkItemTotals(prs, <<{}, {}, 0>>)))

----------------------------------------------------------------------------
(* PRAnalyzer: groupings by month, repository and author *)

\* created_at.strftime("%Y-%m") of a datetime, of which the model keeps the
\* year and the month: four digits, a hyphen, two digits
Digit(n) == Digits[n + 1]

month_key_YearOnly(pr) ==
    LET y == pr.created_at.year
    IN <<Digit(y \div 1000), Digit((y \div 100) % 10), Digit((y \div 10) % 10),
         Digit(y % 10)>>

month_key(pr) ==
    LET y == pr.created_at.year
        m == pr.created_at.month
    IN <<Digit(y \div 1000), Digit((y \div 100) % 10), Digit((y \div 10) % 10),
         Digit(y % 10), "-", Digit(m \div 10), Digit(m % 10)>>

\* dict(sorted(d.items())) of a dict with str keys: ascending by key
SortedByKey(d) ==
    LET keys == sorted(DictKeys(d))
    IN [i \in 1..Len(keys) |-> <<keys[i], DictGet(d, keys[i], 0)>>]

get_prs_per_month(prs) ==
    SortedByKey(IncrementAll(<<>>, [i \in 1..Len(prs) |-> month_key(prs[i])]))

\* the keys are the values of pr["repo"] as stored: Some(name), or None
get_prs_by_repo(prs) ==
    LET kept == SelectSeq(prs, LAMBDA pr : "repo" \in DOMAIN pr)
    IN SortedByValueReverse(
           IncrementAll(<<>>, [i \in 1..Len(kept) |-> kept[i].repo]))

\* pr["author"] raises KeyError when the key is absent; `if pr["author"]`
\* keeps the truthy authors: None and "" are falsy
get_prs_by_author(prs) ==
    IF \E i \in 1..Len(prs) : "author" \notin DOMAIN prs[i]
    THEN Raised("KeyError")
    ELSE LET kept == SelectSeq(prs, LAMBDA pr :
                                    pr.author # None /\ pr.author[1] # <<>>)
         IN Ok(SortedByValueReverse(
                   IncrementAll(<<>>, [i \in 1..Len(kept) |-> kept[i].author[1]])))

----------------------------------------------------------------------------
(* PRAnalyzer: code change statistics *)

\* x / len(self.pr_data) if self.pr_data else 0
PerPR(total, prs) == IF prs # <<>> THEN Rat(total, Len(prs)) ELSE Rat(0, 1)

get_code_change_stats(prs) ==
    [total_additions |-> SumSeq([i \in 1..Len(prs) |-> prs[i].additions]),
     total_deletions |-> SumSeq([i \in 1..Len(prs) |-> prs[i].deletions]),
     total_files_changed |-> SumSeq([i \in 1..Len(prs) |-> prs[i].changed_files]),
     avg_additions_per_pr |->
         PerPR(SumSeq([i \in 1..Len(prs) |-> prs[i].additions]), prs),
     avg_deletions_per_pr |->
         PerPR(SumSeq([i \in 1..Len(prs) |-> prs[i].deletions]), prs),
     avg_files_per_pr |->
         PerPR(SumSeq([i \in 1..Len(prs) |-> prs[i].changed_files]), prs)]

----------------------------------------------------------------------------
(* PRAnalyzer: business insights *)

avg_hourly_rate == 75

\* the float a < k for an integer k
RatLess(a, k) == a[1] < k * a[2]

CostSavings_SameHours(fix_count, perf_count, test_count) ==
    [bug_fixes |-> fix_count * 4 * avg_hourly_rate,
     performance_improvements |-> perf_count * 4 * avg_hourly_rate,
     test_additions |-> test_count * 4 * avg_hourly_rate,
     total |-> fix_count * 4 * avg_hourly_rate
               + perf_count * 4 * avg_hourly_rate
               + test_count * 4 * avg_hourly_rate,
     currency |-> "USD"]

CostSavings(fix_count, perf_count, test_count) ==
    [bug_fixes |-> fix_count * 4 * avg_hourly_rate,
     performance_improvements |-> perf_count * 8 * avg_hourly_rate,
     test_additions |-> test_count * 2 * avg_hourly_rate,
     total |-> fix_count * 4 * avg_hourly_rate
               + perf_count * 8 * avg_hourly_rate
               + test_count * 2 * avg_hourly_rate,
     currency |-> "USD"]

\* bool(avg_time): None and 0.0 are falsy
AvgTruthy(avg_time) == avg_time # None /\ avg_time[1][1] # 0

velocity_score(avg_time) ==
    IF AvgTruthy(avg_time) /\ RatLess(avg_time[1], 48) THEN "high"
    ELSE IF AvgTruthy(avg_time) /\ RatLess(avg_time[1], 168) THEN "medium"
    ELSE "low"

\* the dictionary get_business_insights returns, conv_commits, avg_time and
\* code_stats being what get_conventional_commits_analysis,
\* get_average_time_to_close and get_code_change_stats returned; the keys
\* looked up in commit_types are "perf" and "test", and avg_lines_per_pr is
\* the float sum avg_additions_per_pr + avg_deletions_per_pr
BusinessInsights(prs, conv_commits, avg_time, code_stats) ==
    [estimated_cost_savings |->
         CostSavings(conv_commits.fix_count,
                     DictGet(conv_commits.commit_types, <<"p", "e", "r", "f">>, 0),
                     DictGet(conv_commits.commit_types, <<"t", "e", "s", "t">>, 0)),
     velocity_metrics |->
         [avg_time_to_close_hours |-> avg_time,
          velocity_score |-> velocity_score(avg_time),
          total_prs |-> Len(prs),
          merged_rate |-> IF prs # <<>>
                          THEN Rat(get_merged_prs_count(prs) * 100, Len(prs))
                          ELSE Rat(0, 1)],
     productivity_metrics |->
         [avg_lines_per_pr |->
              Rat(code_stats.avg_additions_per_pr[1] * code_stats.avg_deletions_per_pr[2]
                  + code_stats.avg_deletions_per_pr[1] * code_stats.avg_additions_per_pr[2],
                  code_stats.avg_additions_per_pr[2] * code_stats.avg_deletions_per_pr[2]),
          total_code_changes |->
              code_stats.total_additions + code_stats.total_deletions]]

\* an exception of get_conventional_commits_analysis propagates
BusinessOutcome(prs, conv_commits) ==
    IF IsOk(conv_commits)
    THEN Ok(BusinessInsights(prs, conv_commits.val, get_average_time_to_close(prs),
                             get_code_change_stats(prs)))
    ELSE conv_commits

get_business_insights(prs) ==
    BusinessOutcome(prs, get_conventional_commits_analysis(prs))

----------------------------------------------------------------------------
(* PRAnalyzer: monthly breakdown *)

RECURSIVE GroupByMonth_ReplacesList(_, _)
GroupByMonth_ReplacesList(prs, d) ==
    IF prs = <<>> THEN d
    ELSE GroupByMonth_ReplacesList(Tail(prs),
             IF month_key(Head(prs)) \in DictKeys(d)
             THEN [i \in 1..Len(d) |->
                     IF d[i][1] = month_key(Head(prs))
                     THEN <<d[i][1], <<Head(prs)>>>>
                     ELSE d[i]]
             ELSE Append(d, <<month_key(Head(prs)), <<Head(prs)>>>>))

\* the loop monthly_data[month_key].append(pr) on a defaultdict(list)
RECURSIVE GroupByMonth(_, _)
GroupByMonth(prs, d) ==
    IF prs = <<>> THEN d
    ELSE GroupByMonth(Tail(prs),
             IF month_key(Head(prs)) \in DictKeys(d)
             THEN [i \in 1..Len(d) |->
                     IF d[i][1] = month_key(Head(prs))
                     THEN <<d[i][1], Append(d[i][2], Head(prs))>>
                     ELSE d[i]]
             ELSE Append(d, <<month_key(Head(prs)), <<Head(prs)>>>>))

FirstItems_NoLimit(items, n) == items

\* list(d.items())[:n]
FirstItems(items, n) == SubSeq(items, 1, IF Len(items) < n THEN Len(items) ELSE n)

\* the calls on the sub-analyzer of one month that can raise, in call order
MonthOutcomes(prs) ==
    <<get_work_item_analysis(prs),
      get_conventional_commits_analysis(prs),
      get_prs_by_author(prs)>>

\* the sub-map of one month, all of whose calls return
MonthEntry(prs, outcomes) ==
    [total_prs |-> Len(prs),
     merged |-> get_merged_prs_count(prs),
     closed_not_merged |-> get_closed_prs_count(prs),
     still_open |-> get_open_prs_count(prs),
     avg_time_to_close_hours |-> get_average_time_to_close(prs),
     work_items |-> outcomes[1].val,
     code_changes |-> get_code_change_stats(prs),
     conventional_commits |-> outcomes[2].val,
     top_authors |-> FirstItems(outcomes[3].val, 5)]

RECURSIVE Flatten(_)
Flatten(ss) == IF ss = <<>> THEN <<>> ELSE Head(ss) \o Flatten(Tail(ss))

\* the loop over the months in key order, outcomes[i] being the outcomes of
\* the calls on the sub-analyzer of months[i]
MonthlyBreakdown(months, outcomes) ==
    IF \E i \in 1..Len(outcomes) : \E k \in 1..3 : ~IsOk(outcomes[i][k])
    THEN FirstRaised(Flatten(outcomes))
    ELSE Ok([i \in 1..Len(months) |->
               <<months[i][1], MonthEntry(months[i][2], outcomes[i])>>])

MonthlyMetrics(months) ==
    MonthlyBreakdown(months, [i \in 1..Len(months) |-> MonthOutcomes(months[i][2])])

get_monthly_breakdown(prs) == MonthlyMetrics(SortedByKey(GroupByMonth(prs, <<>>)))

----------------------------------------------------------------------------
(* GitHubPRClient.extract_pr_data: a pull request of the API has the       *)
(* instants created_at and closed_at in seconds, a body, a user, and the   *)
(* reads its commit iteration makes: each read yields a commit with a      *)
(* message, or raises.                                                     *)

Raises(read) == "raises" \in DOMAIN read

\* bool(commit.commit and commit.commit.message): None and "" are falsy
MessageTruthy(read) == read.message # None /\ read.message[1] # <<>>

ReadCommits_NothingOnFailure(reads) ==
    IF \E i \in 1..Len(reads) : Raises(reads[i]) THEN <<>>
    ELSE LET kept == SelectSeq(reads, MessageTruthy)
         IN [i \in 1..Len(kept) |-> kept[i].message[1]]

\* the try block: the loop appends until a read raises, `except: pass` keeps
\* what was appended
ReadCommits(reads) ==
    LET stop == IF \E i \in 1..Len(reads) : Raises(reads[i])
                THEN CHOOSE i \in 1..Len(reads) :
                        /\ Raises(reads[i])
                        /\ \A j \in 1..(i - 1) : ~Raises(reads[j])
                ELSE Len(reads) + 1
        kept == SelectSeq(SubSeq(reads, 1, stop - 1), MessageTruthy)
    IN [i \in 1..Len(kept) |-> kept[i].message[1]]

\* the data dictionary; time_to_close_hours is
\* (pr.closed_at - pr.created_at).total_seconds() / 3600 when closed
PRData(pr) ==
    [state |-> pr.state,
     created_at |-> pr.created_at,
     closed_at |-> pr.closed_at,
     merged |-> pr.merged,
     author |-> IF pr.user # None THEN Some(pr.user[1].login) ELSE None,
     description |-> IF pr.body # None /\ pr.body[1] # <<>> THEN pr.body ELSE Some(<<>>),
     time_to_close_hours |-> IF pr.closed_at # None
                             THEN Some(Rat(pr.closed_at[1] - pr.created_at, 3600))
                             ELSE None,
     commit_messages |-> ReadCommits(pr.commits)]

\* data["repo"] = repo_name for a truthy repo_name
extract_pr_data(pr, repo_name) ==
    IF repo_name # None /\ repo_name[1] # <<>>
    THEN Ok([f \in DOMAIN PRData(pr) \cup {"repo"} |->
               IF f = "repo" THEN repo_name[1] ELSE PRData(pr)[f]])
    ELSE Ok(PRData(pr))

----------------------------------------------------------------------------
(* GitHubPRClient: repositories and pull requests of a user.  A listing of *)
(* the API is the sequence of reads its iteration makes: each read yields  *)
(* an item, or raises GithubException.  An organization is its repository  *)
(* listing, or the GithubException its lookup raises together with the     *)
(* repository listing of the authenticated user.  Instants are seconds     *)
(* since 2023-01-01 00:00:00; an instant with a tzinfo is an aware         *)
(* datetime, which Python refuses to compare with a naive one.             *)

\* the inner try of get_user_repos_in_org: the pull requests are read up to
\* the first one by username (break) or the first read that raises (continue)
ContributedTo(repo, username) ==
    LET stops == {i \in 1..Len(repo.pulls) :
                     \/ Raises(repo.pulls[i])
                     \/ /\ repo.pulls[i].user # None
                        /\ repo.pulls[i].user[1].login = username}
    IN /\ stops # {}
       /\ ~Raises(repo.pulls[CHOOSE i \in stops : \A j \in stops : i <= j])

\* a GithubException of the lookup or of the repository listing becomes a
\* RuntimeError
get_user_repos_in_org(org, username) ==
    IF Raises(org) THEN Raised("RuntimeError")
    ELSE IF \E i \in 1..Len(org.repos) : Raises(org.repos[i])
    THEN Raised("RuntimeError")
    ELSE Ok(SelectSeq(org.repos, LAMBDA repo : ContributedTo(repo, username)))

\* the loops over the listings still to read, the first one from its next
\* read on: a read that raises GithubException ends both loops (except:
\* pass), the comparison of an aware created_at raises TypeError, a pull
\* request created before start_date ends the loop over its listing (break)
RECURSIVE ScanPulls(_, _, _, _, _)
ScanPulls(listings, username, start_date, end_date, prs) ==
    IF listings = <<>> THEN Ok(prs)
    ELSE IF Head(listings) = <<>>
    THEN ScanPulls(Tail(listings), username, start_date, end_date, prs)
    ELSE IF Raises(Head(Head(listings))) THEN Ok(prs)
    ELSE IF Head(Head(listings)).tzinfo # None THEN Raised("TypeError")
    ELSE IF Head(Head(listings)).created_at < start_date
    THEN ScanPulls(Tail(listings), username, start_date, end_date, prs)
    ELSE ScanPulls(<<Tail(Head(listings))>> \o Tail(listings), username,
             start_date, end_date,
             IF /\ Head(Head(listings)).user # None
                /\ Head(Head(listings)).user[1].login = username
                /\ Head(Head(listings)).created_at <= end_date
             THEN Append(prs, Head(Head(listings)))
             ELSE prs)

\* for state in ["closed", "open"], with a year given: start_date is
\* datetime(year, 1, 1) and end_date is datetime(year, 12, 31, 23, 59, 59),
\* for the years 2023 and 2024
get_prs_for_user_in_repo(repo, username, year) ==
    ScanPulls(<<repo.closed, repo.open>>, username,
              (year - 2023) * 365 * 86400,
              (year - 2023) * 365 * 86400
                  + (IF year % 4 = 0 THEN 366 ELSE 365) * 86400 - 1,
              <<>>)

----------------------------------------------------------------------------
(* PR records of the data model (spec section 3; github_client.extract_pr_data) *)

\* state, merged and time_to_close_hours as extract_pr_data produces them:
\* an open PR has no close time and is not merged, a closed PR has a close
\* time and may be merged
StateRecords ==
    {[state |-> "open", merged |-> FALSE, time_to_close_hours |-> None]}
    \cup {[state |-> "closed", merged |-> m, time_to_close_hours |-> Some(h)] :
            m \in BOOLEAN, h \in 0..MaxHours}

\* the texts of the sample records: titles, descriptions, commit messages,
\* descriptions with work item references, and repository names
Texts ==
    [
     \* "feat: x"
     Title_feat |-> <<"f", "e", "a", "t", ":", " ", "x">>,
     \* "Fix y"
     Title_Fix |-> <<"F", "i", "x", " ", "y">>,
     \* "Add z"
     Title_Add |-> <<"A", "d", "d", " ", "z">>,
     \* "perf: p"
     Title_perf |-> <<"p", "e", "r", "f", ":", " ", "p">>,
     \* "test: t"
     Title_test |-> <<"t", "e", "s", "t", ":", " ", "t">>,
     \* "Fixture c"
     Title_Fixture |-> <<"F", "i", "x", "t", "u", "r", "e", " ", "c">>,
     \* ""
     Desc_empty |-> <<>>,
     \* "a fix: b"
     Desc_mid_fix |-> <<"a", " ", "f", "i", "x", ":", " ", "b">>,
     \* "Docs: c fix"
     Desc_start_docs |-> <<"D", "o", "c", "s", ":", " ", "c", " ", "f", "i", "x">>,
     \* "random text"
     Msg_random |-> <<"r", "a", "n", "d", "o", "m", " ", "t", "e", "x", "t">>,
     \* "DOC: d"
     Msg_DOC |-> <<"D", "O", "C", ":", " ", "d">>,
     \* "Hotfix e"
     Msg_Hotfix |-> <<"H", "o", "t", "f", "i", "x", " ", "e">>,
     \* "Cinema p"
     Msg_Cinema |-> <<"C", "i", "n", "e", "m", "a", " ", "p">>,
     \* ""
     Work_empty |-> <<>>,
     \* "#9 #10 #9"
     Work_hash |-> <<"#", "9", " ", "#", "1", "0", " ", "#", "9">>,
     \* "#9 github.com/o-1/r_2/issues/10 #9"
     Work_url |-> <<"#", "9", " ", "g", "i", "t", "h", "u", "b", ".", "c", "o", "m", "/", "o", "-", "1", "/", "r", "_", "2", "/", "i", "s", "s", "u", "e", "s", "/", "1", "0", " ", "#", "9">>,
     \* "gitlab.com/o/r/issues/5"
     Work_other_host |-> <<"g", "i", "t", "l", "a", "b", ".", "c", "o", "m", "/", "o", "/", "r", "/", "i", "s", "s", "u", "e", "s", "/", "5">>,
     \* "github.com/o/r.s/issues/4 #9"
     Work_dotted_repo |-> <<"g", "i", "t", "h", "u", "b", ".", "c", "o", "m", "/", "o", "/", "r", ".", "s", "/", "i", "s", "s", "u", "e", "s", "/", "4", " ", "#", "9">>,
     \* "AB-1 x.atlassian.net/browse/AB-1 CD-22 AB-1x"
     Work_jira |-> <<"A", "B", "-", "1", " ", "x", ".", "a", "t", "l", "a", "s", "s", "i", "a", "n", ".", "n", "e", "t", "/", "b", "r", "o", "w", "s", "e", "/", "A", "B", "-", "1", " ", "C", "D", "-", "2", "2", " ", "A", "B", "-", "1", "x">>,
     \* "#10 CD-22"
     Work_mixed |-> <<"#", "1", "0", " ", "C", "D", "-", "2", "2">>,
     \* "o/r"
     Repo_r |-> <<"o", "/", "r">>,
     \* "o/s"
     Repo_s |-> <<"o", "/", "s">>
    ]

\* title, description and commit_messages as extract_pr_data produces them
\* (description is pr.body or ""), records of a data file written without
\* the commit_messages key, and a record whose title and commit message
\* start with a longer word than a type word
CommitRecords ==
    LET base == [title : {Texts.Title_feat, Texts.Title_Fix, Texts.Title_Add},
                 description : {Some(Texts.Desc_empty), Some(Texts.Desc_mid_fix),
                                Some(Texts.Desc_start_docs)}]
    IN base \cup {("commit_messages" :>
                       <<Texts.Msg_DOC, Texts.Msg_random, Texts.Msg_Hotfix>>) @@ r :
                    r \in base}
            \cup {[title |-> Texts.Title_Fixture,
                   description |-> Some(Texts.Desc_empty),
                   commit_messages |-> <<Texts.Msg_Cinema>>]}

\* descriptions with work item references
WorkTexts == {Texts.Work_empty, Texts.Work_hash, Texts.Work_url,
              Texts.Work_other_host, Texts.Work_dotted_repo, Texts.Work_jira,
              Texts.Work_mixed}

\* description as extract_pr_data produces it (pr.body or "")
WorkRecords == [description : {Some(d) : d \in WorkTexts}]

\* the argument of a direct call: a text, or None
WorkArguments == {None} \cup {Some(d) : d \in WorkTexts}

\* records with every field the analyzer reads
\* author names "a", "b", ...
AuthorName(i) == <<LowerAlpha[i]>>

\* December 2023 and January 2024
Months == {[year |-> 2023, month |-> 12], [year |-> 2024, month |-> 1]}

\* for each month and author three pull requests: one open, one merged, one
\* closed without merging
MonthlyRecords ==
    UNION {
    {[created_at |-> m, author |-> a,
      state |-> "open", merged |-> FALSE, time_to_close_hours |-> None,
      title |-> Texts.Title_Add, description |-> Some(Texts.Desc_empty),
      additions |-> 1, deletions |-> 0, changed_files |-> 1],
     [created_at |-> m, author |-> a,
      state |-> "closed", merged |-> TRUE, time_to_close_hours |-> Some(2),
      title |-> Texts.Title_feat, description |-> Some(Texts.Work_hash),
      additions |-> 3, deletions |-> 2, changed_files |-> 2],
     [created_at |-> m, author |-> a,
      state |-> "closed", merged |-> FALSE, time_to_close_hours |-> Some(1),
      title |-> Texts.Title_Fix, description |-> Some(Texts.Desc_mid_fix),
      additions |-> 0, deletions |-> 4, changed_files |-> 1,
      commit_messages |-> <<Texts.Msg_Hotfix>>]} :
        m \in Months, a \in {None, Some(AuthorName(1))}}

\* a record with every field, as extract_pr_data(pr, repo_name) produces it
FullRecord ==
    [created_at |-> [year |-> 2024, month |-> 1],
     author |-> Some(AuthorName(1)), repo |-> Some(Texts.Repo_r),
     state |-> "closed", merged |-> TRUE, time_to_close_hours |-> Some(2),
     title |-> Texts.Title_feat, description |-> Some(Texts.Work_hash),
     additions |-> 3, deletions |-> 2, changed_files |-> 2,
     commit_messages |-> <<Texts.Msg_Hotfix>>]

\* the record r without the key k, as a data file can hold it
Without(r, k) == [f \in DOMAIN r \ {k} |-> r[f]]

\* records that differ in author and repository: a name, None, or no key
GroupRecords ==
    {[FullRecord EXCEPT !.author = a] : a \in {None, Some(AuthorName(2))}}
    \cup {[FullRecord EXCEPT !.repo = r] : r \in {None, Some(Texts.Repo_s)}}
    \cup {FullRecord, Without(FullRecord, "author"), Without(FullRecord, "repo")}

\* records with an optional field None or absent
OptionalRecords ==
    {FullRecord,
     [FullRecord EXCEPT !.description = None],
     [FullRecord EXCEPT !.author = None],
     Without(FullRecord, "description"),
     Without(FullRecord, "commit_messages"),
     Without(FullRecord, "author"),
     Without(FullRecord, "repo")}

\* records that differ in the title, and records without commit messages
\* that differ in the hours to close, around the two thresholds of the
\* velocity score
BusinessRecords ==
    {[FullRecord EXCEPT !.title = t] :
        t \in {Texts.Title_feat, Texts.Title_perf, Texts.Title_test,
               Texts.Title_Fix, Texts.Title_Add}}
    \cup {[FullRecord EXCEPT !.time_to_close_hours = Some(h),
                             !.title = Texts.Title_Add, !.commit_messages = <<>>] :
            h \in {0, 47, 48, 167, 168}}

\* pull requests of the API: created at second 3600; open, or closed at
\* once, after an hour and a half, or after 28 hours; each read of the commit
\* iteration yields a message, an empty message or no message, or raises
PullRequests ==
    {[state |-> IF t = None THEN "open" ELSE "closed", merged |-> t # None,
      created_at |-> 3600, closed_at |-> t,
      body |-> b, user |-> IF b = None THEN None ELSE Some([login |-> AuthorName(1)]),
      commits |-> c] :
        t \in {None, Some(3600), Some(9000), Some(104400)},
        b \in {None, Some(<<>>), Some(Texts.Work_hash)},
        c \in SeqUpTo({[message |-> Some(Texts.Msg_Hotfix)],
                        [message |-> Some(<<>>)], [message |-> None],
                        [raises |-> "GithubException"]}, MaxCommits)}

\* an open pull request of another month and author, without a repository
OpenRecord ==
    [created_at |-> [year |-> 2023, month |-> 12],
     author |-> Some(AuthorName(2)),
     state |-> "open", merged |-> FALSE, time_to_close_hours |-> None,
     title |-> Texts.Title_Fix, description |-> Some(Texts.Desc_empty),
     additions |-> 1, deletions |-> 0, changed_files |-> 1,
     commit_messages |-> <<>>]

\* the merged pull request of author number i, created in month m
AuthorRecord(i, m) ==
    [created_at |-> m, author |-> Some(AuthorName(i)),
     state |-> "closed", merged |-> TRUE, time_to_close_hours |-> Some(2),
     title |-> Texts.Title_feat, description |-> Some(Texts.Work_hash),
     additions |-> 3, deletions |-> 2, changed_files |-> 2]

\* collections of a pull request of month m1 followed by MaxAuthors pull
\* requests of month m2 by as many authors
ManyAuthorLists ==
    {<<AuthorRecord(1, m1)>> \o [i \in 1..MaxAuthors |-> AuthorRecord(i, m2)] :
        m1 \in Months, m2 \in Months}

\* organizations of the API: the lookup raises and the authenticated user
\* has up to one repository, or the listing reads up to MaxRepos
\* repositories "o/r" and "o/s"; a read of a repository's pull requests
\* yields one without user, one by "a", one by "b", or raises
Organizations ==
    LET repos == [full_name : {Texts.Repo_r, Texts.Repo_s},
                  pulls : SeqUpTo({[user |-> None],
                                   [user |-> Some([login |-> AuthorName(1)])],
                                   [user |-> Some([login |-> AuthorName(2)])],
                                   [raises |-> "GithubException"]}, MaxPulls)]
    IN {[raises |-> "GithubException", user_repos |-> rs] :
           rs \in SeqUpTo(repos, 1)}
       \cup {[repos |-> rs] :
               rs \in SeqUpTo(repos \cup {[raises |-> "GithubException"]},
                              MaxRepos)}

\* repositories of the API with a closed and an open listing: a read yields
\* a pull request by "a" or "b" created in the last second of 2022, the
\* first or the last second of 2023 or the first second of 2024, one
\* without user, one with an aware created_at, or raises
Repositories ==
    LET reads == [created_at : {-1, 0, 31535999, 31536000}, tzinfo : {None},
                  user : {Some([login |-> AuthorName(1)]),
                          Some([login |-> AuthorName(2)])}]
                 \cup {[created_at |-> 0, tzinfo |-> None, user |-> None],
                       [created_at |-> 0, tzinfo |-> Some("UTC"),
                        user |-> Some([login |-> AuthorName(1)])],
                       [raises |-> "GithubException"]}
    IN [closed : SeqUpTo(reads, MaxPulls), open : SeqUpTo(reads, 1)]

----------------------------------------------------------------------------
(* The command line.  A run is its options, the GITHUB_TOKEN of the        *)
(* environment, the data file, the organization the API serves and the     *)
(* step that raises ("nothing" when every step succeeds).  main yields     *)
(* what the run did, in order, as events, with the exit code, the          *)
(* pr_data_by_repo it analysed and the raw data file it wrote.  In a file  *)
(* a datetime is the text [isoformat |-> instant].                         *)

\* a run that ends before any pull request is grouped
Exit(events, code) ==
    [events |-> events, exit_code |-> code, pr_data_by_repo |-> <<>>,
     raw |-> None]

\* the analysis, the five reports in the output directory, the success
\* message and the summary
ReportSteps_SummariesFirst ==
    <<"PRAnalyzer", "mkdir", "write by-repo-summary.md",
      "write aggregated-summary.md", "write data.json",
      "write by-repo-monthly.md", "write aggregated-monthly.md",
      "Reports generated successfully!", "get_business_insights">>

ReportSteps ==
    <<"PRAnalyzer", "mkdir", "write data.json", "write by-repo-summary.md",
      "write aggregated-summary.md", "write by-repo-monthly.md",
      "write aggregated-monthly.md", "Reports generated successfully!",
      "get_business_insights">>

\* the steps in order inside the try block: the first step that raises is
\* caught by `except Exception`, which reports the error and exits with 1
RunSteps(events, steps, fails, pr_data_by_repo, dump) ==
    LET done == IF \E i \in 1..Len(steps) : steps[i] = fails
                THEN SubSeq(steps, 1,
                            (CHOOSE i \in 1..Len(steps) :
                                /\ steps[i] = fails
                                /\ \A j \in 1..(i - 1) : steps[j] # fails) - 1)
                ELSE steps
    IN [events |-> IF done = steps THEN events \o steps
                   ELSE events \o done \o <<"Error">>,
        exit_code |-> IF done = steps THEN 0 ELSE 1,
        pr_data_by_repo |-> pr_data_by_repo,
        raw |-> IF \E i \in 1..Len(done) : done[i] = "write raw-pr-data.json"
                THEN Some(dump) ELSE None]

\* repo_name = pr.get('repository', 'unknown')
RepositoryOf(pr) ==
    IF "repository" \in DOMAIN pr THEN pr.repository
    ELSE <<"u", "n", "k", "n", "o", "w", "n">>

\* --pr-data-file: json.load, datetime.fromisoformat of each truthy date,
\* then the grouping by repository in order of first appearance
LoadRun(w) ==
    IF ~w.file.exists THEN Exit(<<"Error: File not found">>, 1)
    ELSE IF Raises(w.file) THEN Exit(<<"Error">>, 1)
    ELSE IF \E i \in 1..Len(w.file.records) :
                "isoformat" \notin DOMAIN w.file.records[i].created_at
    THEN Exit(<<"Error">>, 1)
    ELSE LET all_pr_data ==
                 [i \in 1..Len(w.file.records) |->
                    [f \in DOMAIN w.file.records[i] |->
                       IF f = "created_at"
                       THEN w.file.records[i][f].isoformat
                       ELSE IF f = "closed_at" /\ w.file.records[i][f] # None
                       THEN Some(w.file.records[i][f][1].isoformat)
                       ELSE w.file.records[i][f]]]
             names == IncrementAll(<<>>, [i \in 1..Len(all_pr_data) |->
                                            RepositoryOf(all_pr_data[i])])
         IN RunSteps(<<"Loaded">>, ReportSteps, w.fails,
                     [k \in 1..Len(names) |->
                        <<names[k][1],
                          SelectSeq(all_pr_data,
                                    LAMBDA pr : RepositoryOf(pr) = names[k][1])>>],
                     <<>>)

\* after the loop over the repositories, repo_pr_data[i] being the
\* extracted pull requests of repos[i]: pr_data_by_repo[repo_name] of each
\* non-empty one, all_pr_data.extend(pr_data); nothing found ends the run,
\* else json.dump(all_pr_data, f, default=str) and the reports
SaveRaw_BeforeTheCheck(w, events, repos, repo_pr_data) ==
    LET kept == SelectSeq([i \in 1..Len(repos) |-> i],
                          LAMBDA i : repo_pr_data[i] # <<>>)
        names == IncrementAll(<<>>, [k \in 1..Len(kept) |->
                                       repos[kept[k]].full_name])
        all_pr_data == Flatten(repo_pr_data)
    IN RunSteps(events,
                IF all_pr_data = <<>>
                THEN <<"mkdir", "write raw-pr-data.json",
                       "No pull requests found">>
                ELSE <<"mkdir", "write raw-pr-data.json">> \o ReportSteps,
                w.fails,
                [k \in 1..Len(names) |->
                   <<names[k][1],
                     repo_pr_data[CHOOSE i \in 1..Len(repos) :
                               /\ repos[i].full_name = names[k][1]
                               /\ repo_pr_data[i] # <<>>
                               /\ \A j \in (i + 1)..Len(repos) :
                                     repos[j].full_name = names[k][1]
                                     => repo_pr_data[j] = <<>>]>>],
                [i \in 1..Len(all_pr_data) |->
                   [f \in DOMAIN all_pr_data[i] |->
                      IF f = "created_at"
                      THEN [isoformat |-> all_pr_data[i][f]]
                      ELSE IF f = "closed_at" /\ all_pr_data[i][f] # None
                      THEN Some([isoformat |-> all_pr_data[i][f][1]])
                      ELSE all_pr_data[i][f]]])

SaveRaw(w, events, repos, repo_pr_data) ==
    LET kept == SelectSeq([i \in 1..Len(repos) |-> i],
                          LAMBDA i : repo_pr_data[i] # <<>>)
        names == IncrementAll(<<>>, [k \in 1..Len(kept) |->
                                       repos[kept[k]].full_name])
        all_pr_data == Flatten(repo_pr_data)
    IN IF all_pr_data = <<>>
       THEN Exit(Append(events, "No pull requests found"), 0)
       ELSE RunSteps(events,
                     <<"mkdir", "write raw-pr-data.json">> \o ReportSteps,
                     w.fails,
                     [k \in 1..Len(names) |->
                        <<names[k][1],
                          repo_pr_data[CHOOSE i \in 1..Len(repos) :
                                    /\ repos[i].full_name = names[k][1]
                                    /\ repo_pr_data[i] # <<>>
                                    /\ \A j \in (i + 1)..Len(repos) :
                                          repos[j].full_name = names[k][1]
                                          => repo_pr_data[j] = <<>>]>>],
                     [i \in 1..Len(all_pr_data) |->
                        [f \in DOMAIN all_pr_data[i] |->
                           IF f = "created_at"
                           THEN [isoformat |-> all_pr_data[i][f]]
                           ELSE IF f = "closed_at" /\ all_pr_data[i][f] # None
                           THEN Some([isoformat |-> all_pr_data[i][f][1]])
                           ELSE all_pr_data[i][f]]])

\* the loop over the repositories, prs[i] being the outcome of
\* client.get_prs_for_user_in_repo(repos[i], user, year): an exception
\* leaves the loop for `except Exception`
FetchPrs(w, events, repos, prs) ==
    IF \E i \in 1..Len(prs) : ~IsOk(prs[i])
    THEN Exit(events
              \o [j \in 1..(CHOOSE i \in 1..Len(prs) :
                              /\ ~IsOk(prs[i])
                              /\ \A k \in 1..(i - 1) : IsOk(prs[k])) |->
                    "get_prs_for_user_in_repo"]
              \o <<"Error">>, 1)
    ELSE SaveRaw(w, events \o [i \in 1..Len(prs) |-> "get_prs_for_user_in_repo"],
                 repos,
                 [i \in 1..Len(prs) |->
                    [k \in 1..Len(prs[i].val) |->
                       extract_pr_data(prs[i].val[k],
                                       Some(repos[i].full_name)).val]])

\* the fetch: repos being the outcome of client.get_user_repos_in_org
FetchRepos(w, repos) ==
    IF ~IsOk(repos)
    THEN Exit(<<"GitHubPRClient", "get_user_repos_in_org", "Error">>, 1)
    ELSE IF repos.val = <<>>
    THEN Exit(<<"GitHubPRClient", "get_user_repos_in_org",
                "No repositories found">>, 0)
    ELSE FetchPrs(w, <<"GitHubPRClient", "get_user_repos_in_org">>, repos.val,
                  [i \in 1..Len(repos.val) |->
                     get_prs_for_user_in_repo(repos.val[i], w.user, w.year)])

\* token = token or os.environ.get("GITHUB_TOKEN"); None and "" are falsy
main_TokenAlwaysRequired(w) ==
    IF /\ ~(w.token # None /\ w.token[1] # <<>>)
       /\ ~(w.env # None /\ w.env[1] # <<>>)
    THEN Exit(<<"Error: GitHub token is required">>, 1)
    ELSE IF w.pr_data_file # None /\ w.pr_data_file[1] # <<>>
    THEN LoadRun(w)
    ELSE IF w.fails = "GitHubPRClient"
    THEN Exit(<<"GitHubPRClient", "Error">>, 1)
    ELSE FetchRepos(w, get_user_repos_in_org(w.org, w.user))

main(w) ==
    IF /\ ~(w.pr_data_file # None /\ w.pr_data_file[1] # <<>>)
       /\ ~(w.token # None /\ w.token[1] # <<>>)
       /\ ~(w.env # None /\ w.env[1] # <<>>)
    THEN Exit(<<"Error: GitHub token is required">>, 1)
    ELSE IF w.pr_data_file # None /\ w.pr_data_file[1] # <<>>
    THEN LoadRun(w)
    ELSE IF w.fails = "GitHubPRClient"
    THEN Exit(<<"GitHubPRClient", "Error">>, 1)
    ELSE FetchRepos(w, get_user_repos_in_org(w.org, w.user))

\* runs of the command line for user "a" and the year 2023.  The API serves
\* up to MaxRepos repositories "o/r" and "o/s": one without a pull request,
\* or one the user contributed to whose closed listing reads nothing, a
\* pull request of the year, an exception, a pull request and then an
\* exception, or a pull request with an aware created_at, and whose open
\* listing reads nothing or one pull request.  A data file is missing,
\* unreadable, or holds up to two records with or without a 'repository'.
Runs ==
    LET Pull(state, tz) ==
            [created_at |-> 3600, tzinfo |-> tz,
             user |-> Some([login |-> AuthorName(1)]),
             state |-> state, merged |-> state = "closed",
             closed_at |-> IF state = "closed" THEN Some(7200) ELSE None,
             body |-> None, commits |-> <<>>]
        repos == {[full_name |-> Texts.Repo_r, pulls |-> <<>>,
                   closed |-> <<>>, open |-> <<>>]}
                 \cup [full_name : {Texts.Repo_r, Texts.Repo_s},
                       pulls : {<<Pull("closed", None)>>},
                       closed : {<<>>, <<Pull("closed", None)>>,
                                 <<[raises |-> "GithubException"]>>,
                                 <<Pull("closed", None),
                                   [raises |-> "GithubException"]>>,
                                 <<Pull("closed", Some("UTC"))>>},
                       open : {<<>>, <<Pull("open", None)>>}]
        orgs(n) == {[raises |-> "GithubException", user_repos |-> <<>>]}
                   \cup {[repos |-> rs] :
                           rs \in SeqUpTo(repos
                                          \cup {[raises |-> "GithubException"]},
                                          n)}
        records == [repository : {Texts.Repo_r, Texts.Repo_s},
                    created_at : {[isoformat |-> 3600]}]
                   \cup {[created_at |-> [isoformat |-> 3600]],
                         [repo |-> Texts.Repo_r,
                          created_at |-> [isoformat |-> 3600]],
                         [repository |-> Texts.Repo_r,
                          created_at |-> [text |-> "yesterday"]]}
        files == {[exists |-> FALSE],
                  [exists |-> TRUE, raises |-> "JSONDecodeError"]}
                 \cup {[exists |-> TRUE, records |-> rs] :
                         rs \in SeqUpTo(records, 2)}
        fails == {"GitHubPRClient", "mkdir", "write raw-pr-data.json"}
                 \cup {ReportSteps[i] : i \in (1..Len(ReportSteps)) \ {8}}
        options == {None, Some(<<>>), Some(<<"x">>)}
    IN [token : options, env : options, pr_data_file : options,
        file : {[exists |-> FALSE],
                [exists |-> TRUE,
                 records |-> <<[repository |-> Texts.Repo_r,
                                created_at |-> [isoformat |-> 3600]]>>]},
        org : orgs(0), fails : {"nothing"},
        user : {AuthorName(1)}, year : {2023}]
       \cup [token : {None}, env : {None}, pr_data_file : {Some(<<"x">>)},
             file : files, org : orgs(0), fails : fails \cup {"nothing"},
             user : {AuthorName(1)}, year : {2023}]
       \cup [token : {Some(<<"x">>)}, env : {None}, pr_data_file : {None},
             file : {[exists |-> FALSE]}, org : orgs(MaxRepos),
             fails : {"nothing"}, user : {AuthorName(1)}, year : {2023}]
       \cup [token : {Some(<<"x">>)}, env : {None}, pr_data_file : {None},
             file : {[exists |-> FALSE]}, org : orgs(1),
             fails : fails, user : {AuthorName(1)}, year : {2023}]

----------------------------------------------------------------------------
(* The analyzer as a state machine: pr_data is the list given to __init__, *)
(* ret[q] holds the value the last call of query q returned (<<>> before   *)
(* the first call).                                                        *)

Queries ==
    {"get_total_prs", "get_merged_prs_count", "get_closed_prs_count",
     "get_open_prs_count", "get_average_time_to_close",
     "get_median_time_to_close", "extract_conventional_commit_types",
     "get_conventional_commits_analysis", "extract_work_items",
     "get_work_item_analysis", "get_prs_per_month", "get_prs_by_repo",
     "get_prs_by_author", "get_code_change_stats", "get_business_insights",
     "get_monthly_breakdown", "get_prs_for_user_in_repo", "extract_pr_data",
     "get_organization", "get_pulls", "get_user_repos_in_org", "run",
     "main"}

NotCalled == <<>>
Called(q) == ret[q] # NotCalled
Returned(q) == ret[q][1]

Return(q, v) == /\ ret' = [ret EXCEPT ![q] = <<v>>]
                /\ UNCHANGED pr_data

Init == /\ pr_data \in SeqUpTo(StateRecords, MaxPRs)
        /\ ret = [q \in Queries |-> NotCalled]

GetTotalPrs == Return("get_total_prs", get_total_prs(pr_data))
GetMergedPrsCount == Return("get_merged_prs_count", get_merged_prs_count(pr_data))
GetClosedPrsCount == Return("get_closed_prs_count", get_closed_prs_count(pr_data))
GetOpenPrsCount == Return("get_open_prs_count", get_open_prs_count(pr_data))
GetAverageTimeToClose ==
    Return("get_average_time_to_close", get_average_time_to_close(pr_data))
GetMedianTimeToClose ==
    Return("get_median_time_to_close", get_median_time_to_close(pr_data))

Next == \/ GetTotalPrs
        \/ GetMergedPrsCount
        \/ GetClosedPrsCount
        \/ GetOpenPrsCount
        \/ GetAverageTimeToClose
        \/ GetMedianTimeToClose

Spec == Init /\ [][Next]_vars

----------------------------------------------------------------------------
(* The analyzer over records that differ in their texts *)

InitCommits == /\ pr_data \in SeqUpTo(CommitRecords, MaxTextPRs)
               /\ ret = [q \in Queries |-> NotCalled]

\* extract_conventional_commit_types(pr) for a record of the collection
ExtractConventionalCommitTypes ==
    \E i \in 1..Len(pr_data) :
        Return("extract_conventional_commit_types",
               [arg |-> pr_data[i],
                out |-> extract_conventional_commit_types(pr_data[i])])

GetConventionalCommitsAnalysis ==
    Return("get_conventional_commits_analysis",
           get_conventional_commits_analysis(pr_data))

NextCommits == \/ ExtractConventionalCommitTypes
               \/ GetConventionalCommitsAnalysis

SpecCommits == InitCommits /\ [][NextCommits]_vars

----------------------------------------------------------------------------
(* The analyzer over records that differ in their work item references *)

InitWorkItems == /\ pr_data \in SeqUpTo(WorkRecords, MaxTextPRs)
                 /\ ret = [q \in Queries |-> NotCalled]

\* extract_work_items(description), called with any text or None
ExtractWorkItems ==
    \E description \in WorkArguments :
        Return("extract_work_items",
               [arg |-> description, out |-> extract_work_items(description)])

GetWorkItemAnalysis ==
    Return("get_work_item_analysis", get_work_item_analysis(pr_data))

NextWorkItems == \/ ExtractWorkItems
                 \/ GetWorkItemAnalysis

SpecWorkItems == InitWorkItems /\ [][NextWorkItems]_vars

----------------------------------------------------------------------------
(* The analyzer over records that differ in author and repository *)

InitGroups == /\ pr_data \in SeqUpTo(GroupRecords, MaxGroupPRs)
              /\ ret = [q \in Queries |-> NotCalled]

GetPrsByRepo == Return("get_prs_by_repo", get_prs_by_repo(pr_data))

GetPrsByAuthor == Return("get_prs_by_author", get_prs_by_author(pr_data))

NextGroups == \/ GetPrsByRepo
              \/ GetPrsByAuthor

SpecGroups == InitGroups /\ [][NextGroups]_vars

----------------------------------------------------------------------------
(* Every query of one analyzer, called in any order and repeatedly: here   *)
(* ret[q] holds the values the last two calls of q returned, the latest    *)
(* first.                                                                  *)

\* the number of calls ret remembers
NumCalls == Cardinality({c \in Queries \X {1, 2} : c[2] <= Len(ret[c[1]])})

Recall_ClearsList(q, v) ==
    /\ NumCalls < MaxCalls
    /\ ret' = [ret EXCEPT ![q] = <<v>> \o SubSeq(ret[q], 1, IF Called(q) THEN 1 ELSE 0)]
    /\ pr_data' = <<>>

Recall(q, v) ==
    /\ NumCalls < MaxCalls
    /\ ret' = [ret EXCEPT ![q] = <<v>> \o SubSeq(ret[q], 1, IF Called(q) THEN 1 ELSE 0)]
    /\ UNCHANGED pr_data

InitAll == /\ pr_data \in SeqUpTo({FullRecord, OpenRecord}, MaxAllPRs)
           /\ ret = [q \in Queries |-> NotCalled]

CallGetMonthlyBreakdown_ConsumesList ==
    /\ NumCalls < MaxCalls
    /\ ret' = [ret EXCEPT !["get_monthly_breakdown"] =
                   <<get_monthly_breakdown(pr_data)>>
                   \o SubSeq(@, 1, IF Called("get_monthly_breakdown") THEN 1 ELSE 0)]
    /\ pr_data' = <<>>

\* the sub-analyzers are built over new lists of the same records
CallGetMonthlyBreakdown ==
    /\ NumCalls < MaxCalls
    /\ ret' = [ret EXCEPT !["get_monthly_breakdown"] =
                   <<get_monthly_breakdown(pr_data)>>
                   \o SubSeq(@, 1, IF Called("get_monthly_breakdown") THEN 1 ELSE 0)]
    /\ pr_data' = pr_data

\* one disjunct per query method of PRAnalyzer
NextAll ==
    \/ Recall("get_total_prs", get_total_prs(pr_data))
    \/ Recall("get_merged_prs_count", get_merged_prs_count(pr_data))
    \/ Recall("get_closed_prs_count", get_closed_prs_count(pr_data))
    \/ Recall("get_open_prs_count", get_open_prs_count(pr_data))
    \/ Recall("get_average_time_to_close", get_average_time_to_close(pr_data))
    \/ Recall("get_median_time_to_close", get_median_time_to_close(pr_data))
    \/ Recall("get_prs_per_month", get_prs_per_month(pr_data))
    \/ Recall("get_prs_by_repo", get_prs_by_repo(pr_data))
    \/ Recall("get_prs_by_author", get_prs_by_author(pr_data))
    \/ Recall("get_conventional_commits_analysis",
              get_conventional_commits_analysis(pr_data))
    \/ Recall("get_business_insights", get_business_insights(pr_data))
    \/ Recall("get_work_item_analysis", get_work_item_analysis(pr_data))
    \/ Recall("get_code_change_stats", get_code_change_stats(pr_data))
    \/ CallGetMonthlyBreakdown

SpecAll == InitAll /\ [][NextAll]_vars

----------------------------------------------------------------------------
(* The analyzer over records with optional fields missing *)

InitOptional == /\ pr_data \in SeqUpTo(OptionalRecords, MaxOptionalPRs)
                /\ ret = [q \in Queries |-> NotCalled]

NextOptional == \/ GetTotalPrs
                \/ GetPrsByRepo
                \/ GetPrsByAuthor
                \/ GetWorkItemAnalysis
                \/ GetConventionalCommitsAnalysis

SpecOptional == InitOptional /\ [][NextOptional]_vars

----------------------------------------------------------------------------
(* The analyzer over records that differ in commit types and close times *)

InitBusiness == /\ pr_data \in SeqUpTo(BusinessRecords \cup {OpenRecord},
                                        MaxBusinessPRs)
                /\ ret = [q \in Queries |-> NotCalled]

GetBusinessInsights ==
    Return("get_business_insights", get_business_insights(pr_data))

NextBusiness == \/ GetBusinessInsights
                \/ GetConventionalCommitsAnalysis
                \/ GetAverageTimeToClose

SpecBusiness == InitBusiness /\ [][NextBusiness]_vars

----------------------------------------------------------------------------
(* The client turning pull requests of the API into records *)

\* the state after get_prs_for_user_in_repo returned a list of one pull
\* request, which the loop of the CLI hands to extract_pr_data
InitClient ==
    /\ pr_data = <<>>
    /\ \E pr \in PullRequests :
           ret = [q \in Queries |->
                    IF q = "get_prs_for_user_in_repo" THEN <<(<<pr>>)>> ELSE NotCalled]

\* extract_pr_data(pr, repo_name) for a pull request of the list
ExtractPrData ==
    \E i \in 1..Len(Returned("get_prs_for_user_in_repo")),
       repo_name \in {None, Some(Texts.Repo_r)} :
        Return("extract_pr_data",
               [arg |-> Returned("get_prs_for_user_in_repo")[i],
                repo_name |-> repo_name,
                out |-> extract_pr_data(Returned("get_prs_for_user_in_repo")[i],
                                        repo_name)])


SpecClient == InitClient /\ [][ExtractPrData]_vars

----------------------------------------------------------------------------
(* The client listing repositories and pull requests: ret holds what the   *)
(* API answers, either the organization under "get_organization" or the    *)
(* listings of a repository under "get_pulls"; the user is "a", the year   *)
(* 2023.                                                                   *)

InitRepos ==
    /\ pr_data = <<>>
    /\ \/ \E org \in Organizations :
              ret = [q \in Queries |->
                       IF q = "get_organization" THEN <<org>> ELSE NotCalled]
       \/ \E repo \in Repositories :
              ret = [q \in Queries |->
                       IF q = "get_pulls" THEN <<repo>> ELSE NotCalled]

GetUserReposInOrg ==
    /\ Called("get_organization")
    /\ Return("get_user_repos_in_org",
              get_user_repos_in_org(Returned("get_organization"), AuthorName(1)))

GetPrsForUserInRepo ==
    /\ Called("get_pulls")
    /\ Return("get_prs_for_user_in_repo",
              get_prs_for_user_in_repo(Returned("get_pulls"), AuthorName(1), 2023))

NextRepos == \/ GetUserReposInOrg
             \/ GetPrsForUserInRepo

SpecRepos == InitRepos /\ [][NextRepos]_vars

----------------------------------------------------------------------------
(* The command line: ret holds the run under "run" and what main did with  *)
(* it under "main".                                                        *)

InitMain ==
    /\ pr_data = <<>>
    /\ \E w \in Runs :
           ret = [q \in Queries |-> IF q = "run" THEN <<w>> ELSE NotCalled]

Main == /\ Called("run")
        /\ Return("main", main(Returned("run")))

SpecMain == InitMain /\ [][Main]_vars

----------------------------------------------------------------------------
(* The analyzer over records of two months *)

InitMonthly == /\ pr_data \in SeqUpTo(MonthlyRecords, MaxMonthPRs)
                              \cup ManyAuthorLists
               /\ ret = [q \in Queries |-> NotCalled]

GetPrsPerMonth == Return("get_prs_per_month", get_prs_per_month(pr_data))

GetMonthlyBreakdown ==
    Return("get_monthly_breakdown", get_monthly_breakdown(pr_data))

NextMonthly == \/ GetTotalPrs
               \/ GetPrsPerMonth
               \/ GetMonthlyBreakdown

SpecMonthly == InitMonthly /\ [][NextMonthly]_vars

----------------------------------------------------------------------------
(* C1: for a non-empty collection the merged, closed-not-merged and open   *)
(* counts returned by the three count queries add up to the total          *)
(* returned by get_total_prs.                                              *)
C1_CountsPartition ==
    (/\ pr_data # <<>>
     /\ Called("get_total_prs") /\ Called("get_merged_prs_count")
     /\ Called("get_closed_prs_count") /\ Called("get_open_prs_count"))
    => Returned("get_merged_prs_count") + Returned("get_closed_prs_count")
         + Returned("get_open_prs_count") = Returned("get_total_prs")

\* all four counts were queried on a collection holding a merged, a
\* closed-not-merged and an open record
C1_Witness ==
    /\ Called("get_total_prs") /\ Called("get_merged_prs_count")
    /\ Called("get_closed_prs_count") /\ Called("get_open_prs_count")
    /\ Returned("get_merged_prs_count") > 0
    /\ Returned("get_closed_prs_count") > 0
    /\ Returned("get_open_prs_count") > 0

----------------------------------------------------------------------------
(* C2: mean and median time-to-close are taken over exactly the records    *)
(* whose time_to_close_hours is present (a present 0 included), and are    *)
(* None iff no record has one.                                             *)

\* the present close times, in record order
PresentTimes(prs) ==
    LET kept == SelectSeq(prs, LAMBDA pr : pr.time_to_close_hours # None)
    IN [i \in 1..Len(kept) |-> kept[i].time_to_close_hours[1]]

C2_TimeToCloseOverPresent ==
    /\ Called("get_average_time_to_close") =>
         Returned("get_average_time_to_close") =
            (IF PresentTimes(pr_data) = <<>> THEN None
             ELSE Some(mean(PresentTimes(pr_data))))
    /\ Called("get_median_time_to_close") =>
         Returned("get_median_time_to_close") =
            (IF PresentTimes(pr_data) = <<>> THEN None
             ELSE Some(median(PresentTimes(pr_data))))

----------------------------------------------------------------------------
(* Vocabulary of the claims about commit types *)

Feat == <<"f", "e", "a", "t">>
Fix == <<"f", "i", "x">>
Docs == <<"d", "o", "c", "s">>

\* a type word stands in text at position pos, in any case
TypeWordsAt(text, pos) ==
    {TypeAlternatives[k] : k \in {j \in 1..Len(TypeAlternatives) :
                                    LitAtIgnoreCase(text, pos, TypeAlternatives[j])}}

\* the vocabulary member a type word stands for
Canonical(w) ==
    IF w = <<"d", "o", "c">> THEN Docs
    ELSE IF w = <<"h", "o", "t", "f", "i", "x">> THEN Fix
    ELSE w

\* the token of a text that starts with a type word: that of the longest
\* type word it starts with; nothing for any other text
LeadingToken(text) ==
    LET ws == TypeWordsAt(text, 1)
    IN IF ws = {} THEN <<>>
       ELSE <<Canonical(CHOOSE w \in ws : \A v \in ws : Len(v) <= Len(w))>>

RECURSIVE LeadingTokens(_)
LeadingTokens(messages) ==
    IF messages = <<>> THEN <<>>
    ELSE LeadingToken(Head(messages)) \o LeadingTokens(Tail(messages))

\* number of occurrences of type words in text at or after pos, counted
\* left to right without overlap
RECURSIVE TypeOccurrences(_, _)
TypeOccurrences(text, pos) ==
    IF pos > Len(text) THEN 0
    ELSE LET m == TypeGroupAt(text, pos)
         IN IF m = NoMatch THEN TypeOccurrences(text, pos + 1)
            ELSE 1 + TypeOccurrences(text, m[1].stop)

ExtractCalled == Called("extract_conventional_commit_types")
ExtractArg == Returned("extract_conventional_commit_types").arg
ExtractOut == Returned("extract_conventional_commit_types").out
ArgMessages == IF "commit_messages" \in DOMAIN ExtractArg
               THEN ExtractArg.commit_messages ELSE <<>>

----------------------------------------------------------------------------
(* C3: the description is scanned anywhere: a description with k           *)
(* occurrences of type words contributes k tokens, so the call returns     *)
(* the title token, k description tokens and the commit message tokens.    *)
C3_DescriptionScannedAnywhere ==
    ExtractCalled =>
        /\ IsOk(ExtractOut)
        /\ Len(ExtractOut.val) =
              Len(LeadingToken(ExtractArg.title))
              + TypeOccurrences(ExtractArg.description[1], 1)
              + Len(LeadingTokens(ArgMessages))

----------------------------------------------------------------------------
(* C4: the tokens come in scan order: at most one token of a title that    *)
(* starts with a type word, then tokens of type words of the description,  *)
(* then per commit message in list order the token of a message that       *)
(* starts with a type word; no commit_messages field gives no commit       *)
(* tokens and no error; nothing matching gives the empty sequence.         *)
C4_ScanOrder ==
    ExtractCalled =>
        /\ IsOk(ExtractOut)
        /\ LET r == ExtractOut.val
               T == LeadingToken(ExtractArg.title)
               M == LeadingTokens(ArgMessages)
               desc == ExtractArg.description[1]
           IN /\ Len(r) >= Len(T) + Len(M)
              /\ SubSeq(r, 1, Len(T)) = T
              /\ SubSeq(r, Len(r) - Len(M) + 1, Len(r)) = M
              /\ \A i \in (Len(T) + 1)..(Len(r) - Len(M)) :
                    \E pos \in 1..Len(desc) :
                        \E w \in TypeWordsAt(desc, pos) : Canonical(w) = r[i]
              /\ (\A pos \in 1..Len(desc) : TypeWordsAt(desc, pos) = {})
                    => r = T \o M

\* a call whose title, description and commit messages all gave tokens,
\* with a commit message that gave none
C4_Witness ==
    /\ ExtractCalled
    /\ IsOk(ExtractOut)
    /\ LeadingToken(ExtractArg.title) # <<>>
    /\ Len(ExtractOut.val) >
          Len(LeadingToken(ExtractArg.title)) + Len(LeadingTokens(ArgMessages))
    /\ LeadingTokens(ArgMessages) # <<>>
    /\ \E i \in 1..Len(ArgMessages) : LeadingToken(ArgMessages[i]) = <<>>

----------------------------------------------------------------------------
----------------------------------------------------------------------------
(* Claims about get_conventional_commits_analysis *)

AnalysisCalled == Called("get_conventional_commits_analysis")
Analysis == Returned("get_conventional_commits_analysis").val

\* the tokens of record i, and of all records in order
TokensOf(i) == extract_conventional_commit_types(pr_data[i]).val
RECURSIVE TokensFrom(_)
TokensFrom(i) == IF i > Len(pr_data) THEN <<>> ELSE TokensOf(i) \o TokensFrom(i + 1)
AllTokens == TokensFrom(1)
\* how often, and where first, t stands in the token sequence all
CountOf(all, t) == Cardinality({j \in 1..Len(all) : all[j] = t})
FirstAt(all, t) == CHOOSE j \in 1..Len(all) :
                      all[j] = t /\ \A k \in 1..(j - 1) : all[k] # t

(* C9: commit_types[t] is the number of tokens t over all records, without *)
(* zero-count keys, ordered by descending count with equal counts in       *)
(* first-encountered order; prs_with_conventional_commits counts the       *)
(* records with a token; total_typed_commits is the sum of the counts;     *)
(* feat_count and fix_count are the entries of feat and fix (0 if absent). *)
C9_CommitTypeTable ==
    AnalysisCalled =>
        /\ IsOk(Returned("get_conventional_commits_analysis"))
        /\ LET table == Analysis.commit_types
               all == AllTokens
           IN /\ Cardinality(DictKeys(table)) = Len(table)
              /\ DictKeys(table) = Range(all)
              /\ \A i \in 1..Len(table) : table[i][2] = CountOf(all, table[i][1])
              /\ \A i, j \in 1..Len(table) :
                    i < j => \/ table[i][2] > table[j][2]
                             \/ /\ table[i][2] = table[j][2]
                                /\ FirstAt(all, table[i][1]) < FirstAt(all, table[j][1])
              /\ Analysis.prs_with_conventional_commits =
                    Cardinality({i \in 1..Len(pr_data) : TokensOf(i) # <<>>})
              /\ Analysis.total_typed_commits = Len(all)
              /\ Analysis.feat_count = CountOf(all, Feat)
              /\ Analysis.fix_count = CountOf(all, Fix)

\* a table of at least three types, with a tie and with a type encountered
\* later ranked before one encountered earlier
C9_Witness ==
    /\ AnalysisCalled
    /\ IsOk(Returned("get_conventional_commits_analysis"))
    /\ LET table == Analysis.commit_types
           all == AllTokens
       IN /\ Len(table) >= 3
          /\ \E i \in 1..(Len(table) - 1) : table[i][2] = table[i + 1][2]
          /\ \E i \in 1..(Len(table) - 1) :
                /\ table[i][2] > table[i + 1][2]
                /\ FirstAt(all, table[i][1]) > FirstAt(all, table[i + 1][1])

----------------------------------------------------------------------------
(* C10: feat_fix_ratio is None iff no fix token was counted, otherwise it  *)
(* is feat_count / fix_count; the analysis never raises.                   *)
C10_FeatFixRatio ==
    AnalysisCalled =>
        /\ IsOk(Returned("get_conventional_commits_analysis"))
        /\ LET all == AllTokens
           IN /\ (Analysis.feat_fix_ratio = None) <=> (CountOf(all, Fix) = 0)
              /\ CountOf(all, Fix) > 0 =>
                    Analysis.feat_fix_ratio =
                       Some(Rat(CountOf(all, Feat), CountOf(all, Fix)))

\* a non-empty collection with feat tokens and no fix token
C10_Witness ==
    /\ AnalysisCalled
    /\ IsOk(Returned("get_conventional_commits_analysis"))
    /\ CountOf(AllTokens, Feat) > 0
    /\ CountOf(AllTokens, Fix) = 0
    /\ Analysis.feat_fix_ratio = None

----------------------------------------------------------------------------
(* References in a text, for the claims about work items *)

AllIn(text, a, b, class) == \A k \in a..b : text[k] \in class

\* the whole decimal number that starts at position a
NumberAt(text, a) ==
    SubSeq(text, a,
           CHOOSE b \in a..Len(text) :
               /\ AllIn(text, a, b, DigitClass)
               /\ b = Len(text) \/ text[b + 1] \notin DigitClass)

\* the numbers that follow a # sigil
HashNumbers(text) ==
    {NumberAt(text, i + 1) :
        i \in {i \in 1..(Len(text) - 1) :
                 text[i] = "#" /\ text[i + 1] \in DigitClass}}

\* the numbers of the URLs <host>/<owner>/<repo>/issues/<number>, owner
\* and repo made of the characters of seg; with anyHost the host is any
\* host name, otherwise it is github.com
IssueUrlNumbers(text, seg, anyHost) ==
    {NumberAt(text, c + Len(Lit_issues)) :
        c \in {c \in 1..Len(text) :
                 /\ LitAt(text, c, Lit_issues)
                 /\ c + Len(Lit_issues) <= Len(text)
                 /\ text[c + Len(Lit_issues)] \in DigitClass
                 /\ \E a, b \in 1..(c - 1) :
                       /\ a + 1 < b /\ b + 1 < c
                       /\ text[a] = "/" /\ text[b] = "/"
                       /\ AllIn(text, a + 1, b - 1, seg)
                       /\ AllIn(text, b + 1, c - 1, seg)
                       /\ IF anyHost
                          THEN a > 1 /\ text[a - 1] \in HostClass
                          ELSE /\ a >= Len(Lit_github_com)
                               /\ LitAt(text, a + 1 - Len(Lit_github_com),
                                        Lit_github_com)}}

\* the identifiers UPPERCASE_LETTERS-DIGITS of the text, each taken whole
JiraTickets(text) ==
    LET starts == {i \in 1..Len(text) :
                     /\ text[i] \in UpperClass
                     /\ i = 1 \/ text[i - 1] \notin UpperClass}
        stops == {j \in 1..Len(text) :
                    /\ text[j] \in DigitClass
                    /\ j = Len(text) \/ text[j + 1] \notin DigitClass}
    IN {SubSeq(text, p[1], p[2]) :
           p \in {q \in starts \X stops :
                    \E k \in (q[1] + 1)..(q[2] - 1) :
                       /\ AllIn(text, q[1], k - 1, UpperClass)
                       /\ text[k] = "-"
                       /\ AllIn(text, k + 1, q[2], DigitClass)}}

\* strictly ascending in str order, hence without duplicates
Ascending(r) == \A i \in 1..(Len(r) - 1) : StrLess(r[i], r[i + 1])

WorkCalled == Called("extract_work_items")
WorkArg == Returned("extract_work_items").arg
WorkOut == Returned("extract_work_items").out

----------------------------------------------------------------------------
(* C6 as stated: github_issues is the set of numbers after a # sigil or in *)
(* an issue URL <host>/<owner>/<repo>/issues/<number> of any host,         *)
(* jira_tickets the set of identifiers UPPERCASE_LETTERS-DIGITS, each      *)
(* sorted ascending in str order without duplicates.                       *)
C6_WorkItemsAnyHost ==
    WorkCalled /\ WorkArg # None =>
        /\ IsOk(WorkOut)
        /\ Range(WorkOut.val.github_issues) =
              HashNumbers(WorkArg[1])
              \cup IssueUrlNumbers(WorkArg[1], SlugClass \cup {"."}, TRUE)
        /\ Range(WorkOut.val.jira_tickets) = JiraTickets(WorkArg[1])
        /\ Ascending(WorkOut.val.github_issues)
        /\ Ascending(WorkOut.val.jira_tickets)

(* C6 amended: the issue URLs that count are those of the form            *)
(* github.com/<owner>/<repo>/issues/<number> with owner and repo made of   *)
(* letters, digits, underscores and hyphens; the rest as stated.           *)
C6_WorkItemsGithubHost ==
    WorkCalled /\ WorkArg # None =>
        /\ IsOk(WorkOut)
        /\ Range(WorkOut.val.github_issues) =
              HashNumbers(WorkArg[1])
              \cup IssueUrlNumbers(WorkArg[1], SlugClass, FALSE)
        /\ Range(WorkOut.val.jira_tickets) = JiraTickets(WorkArg[1])
        /\ Ascending(WorkOut.val.github_issues)
        /\ Ascending(WorkOut.val.jira_tickets)

\* a call on a text with #9 twice and a github.com issue URL of number 10:
\* the result is 10 before 9
C6_Witness ==
    /\ WorkCalled
    /\ WorkArg = Some(Texts.Work_url)
    /\ IsOk(WorkOut)
    /\ WorkOut.val.github_issues = << <<"1", "0">>, <<"9">> >>

----------------------------------------------------------------------------
(* C7: extract_work_items never raises, and for an empty or None text it   *)
(* returns empty github_issues and jira_tickets.                           *)
C7_NoErrorOnEmptyOrNone ==
    WorkCalled =>
        /\ IsOk(WorkOut)
        /\ WorkArg \in {None, Some(<<>>)} =>
              WorkOut.val = [github_issues |-> <<>>, jira_tickets |-> <<>>]

----------------------------------------------------------------------------
(* C8: prs_with_work_items counts the records whose description yields an  *)
(* issue or a ticket; total_github_issues and total_jira_tickets are the   *)
(* sizes of the unions of the per-record sets; with and without add up to  *)
(* the number of records; the percentage is with / total * 100.            *)
ItemsOf(i) == extract_work_items(pr_data[i].description).val

C8_WorkItemAnalysis ==
    Called("get_work_item_analysis") =>
        /\ IsOk(Returned("get_work_item_analysis"))
        /\ LET a == Returned("get_work_item_analysis").val
               n == Len(pr_data)
               with == {i \in 1..n : \/ ItemsOf(i).github_issues # <<>>
                                     \/ ItemsOf(i).jira_tickets # <<>>}
           IN /\ a.prs_with_work_items = Cardinality(with)
              /\ a.total_github_issues =
                    Cardinality(UNION {Range(ItemsOf(i).github_issues) : i \in 1..n})
              /\ a.total_jira_tickets =
                    Cardinality(UNION {Range(ItemsOf(i).jira_tickets) : i \in 1..n})
              /\ a.prs_with_work_items + a.prs_without_work_items = n
              /\ n > 0 => a.percentage_with_work_items =
                             Rat(a.prs_with_work_items * 100, n)

\* an analysis of two records that reference the same issue, one of them
\* a second issue as well
C8_Witness ==
    /\ Called("get_work_item_analysis")
    /\ IsOk(Returned("get_work_item_analysis"))
    /\ Len(pr_data) = 2
    /\ Range(ItemsOf(1).github_issues) \cap Range(ItemsOf(2).github_issues) # {}
    /\ Returned("get_work_item_analysis").val.total_github_issues = 2
    /\ Returned("get_work_item_analysis").val.prs_with_work_items = 2

----------------------------------------------------------------------------
\* the number a run of digits writes
RECURSIVE DigitsValue(_)
DigitsValue(chars) ==
    IF chars = <<>> THEN 0
    ELSE DigitsValue(SubSeq(chars, 1, Len(chars) - 1)) * 10
         + (IndexOf(Digits, chars[Len(chars)]) - 1)

\* the creation month a key YYYY-MM names
KeyMonth(key) ==
    [year |-> DigitsValue(SubSeq(key, 1, 4)), month |-> DigitsValue(SubSeq(key, 6, 7))]
IsMonthKey(key) ==
    /\ Len(key) = 7
    /\ key[5] = "-"
    /\ \A i \in {1, 2, 3, 4, 6, 7} : key[i] \in DigitClass

CreatedIn(m) == {i \in 1..Len(pr_data) : pr_data[i].created_at = m}

BreakdownCalled ==
    Called("get_monthly_breakdown") /\ IsOk(Returned("get_monthly_breakdown"))
Breakdown == Returned("get_monthly_breakdown").val

(* C11: get_monthly_breakdown returns a mapping whose keys are exactly the  *)
(* creation months (YYYY-MM) of the held records, in ascending key order;  *)
(* each sub-map's total_prs is the number of records created in that       *)
(* month; the total_prs add up to what get_total_prs returns; and          *)
(* get_prs_per_month has the same keys with the same counts.               *)
C11_MonthlyKeysAndTotals ==
    BreakdownCalled =>
        /\ \A i \in 1..Len(Breakdown) : IsMonthKey(Breakdown[i][1])
        /\ {KeyMonth(Breakdown[i][1]) : i \in 1..Len(Breakdown)}
               = {pr_data[j].created_at : j \in 1..Len(pr_data)}
        /\ \A i, j \in 1..Len(Breakdown) :
               i < j => StrLess(Breakdown[i][1], Breakdown[j][1])
        /\ \A i \in 1..Len(Breakdown) :
               Breakdown[i][2].total_prs
                   = Cardinality(CreatedIn(KeyMonth(Breakdown[i][1])))
        /\ SumSeq([i \in 1..Len(Breakdown) |-> Breakdown[i][2].total_prs])
               = Len(pr_data)
        /\ Called("get_total_prs") =>
               SumSeq([i \in 1..Len(Breakdown) |-> Breakdown[i][2].total_prs])
                   = Returned("get_total_prs")
        /\ Called("get_prs_per_month") =>
               /\ Len(Returned("get_prs_per_month")) = Len(Breakdown)
               /\ \A i \in 1..Len(Breakdown) :
                      Returned("get_prs_per_month")[i]
                          = <<Breakdown[i][1], Breakdown[i][2].total_prs>>

\* a breakdown of two months, one of them with several records, next to
\* the results of get_total_prs and get_prs_per_month
C11_Witness ==
    /\ BreakdownCalled
    /\ Called("get_total_prs")
    /\ Called("get_prs_per_month")
    /\ Len(Breakdown) = 2
    /\ \E i \in 1..2 : Breakdown[i][2].total_prs > 1

----------------------------------------------------------------------------
\* the records created in month m, in the order of the collection
MonthRecords(m) == SelectSeq(pr_data, LAMBDA pr : pr.created_at = m)

\* the sub-map e holds what the queries return over the records prs, the
\* author grouping cut to its first n entries
HoldsMetrics(e, prs, authors, n) ==
    /\ e.total_prs = get_total_prs(prs)
    /\ e.merged = get_merged_prs_count(prs)
    /\ e.closed_not_merged = get_closed_prs_count(prs)
    /\ e.still_open = get_open_prs_count(prs)
    /\ e.avg_time_to_close_hours = get_average_time_to_close(prs)
    /\ e.work_items = get_work_item_analysis(prs).val
    /\ e.code_changes = get_code_change_stats(prs)
    /\ e.conventional_commits = get_conventional_commits_analysis(prs).val
    /\ e.top_authors = SubSeq(authors, 1, IF Len(authors) < n THEN Len(authors) ELSE n)

(* C12: for each month key, the sub-map of get_monthly_breakdown holds,    *)
(* for every core query (state counts, mean and median time-to-close,      *)
(* author grouping, work-item analysis, code-change stats, conventional-   *)
(* commit analysis), the value an analyzer over the records of that month  *)
(* returns: none omitted, none truncated.                                  *)
C12_FullMetricSet ==
    BreakdownCalled =>
        \A i \in 1..Len(Breakdown) :
            /\ HoldsMetrics(Breakdown[i][2], MonthRecords(KeyMonth(Breakdown[i][1])),
                            get_prs_by_author(MonthRecords(KeyMonth(Breakdown[i][1]))).val,
                            Len(pr_data))
            /\ "median_time_to_close_hours" \in DOMAIN Breakdown[i][2]

(* C12 as amended: the sub-map of a month has exactly the entries          *)
(* total_prs, merged, closed_not_merged, still_open,                       *)
(* avg_time_to_close_hours, work_items, code_changes,                      *)
(* conventional_commits and top_authors; each holds the value an analyzer  *)
(* over the records of that month returns, top_authors being the first     *)
(* five entries of its author grouping; the median is not held.            *)
C12_MonthMetricsTopFive ==
    BreakdownCalled =>
        \A i \in 1..Len(Breakdown) :
            /\ HoldsMetrics(Breakdown[i][2], MonthRecords(KeyMonth(Breakdown[i][1])),
                            get_prs_by_author(MonthRecords(KeyMonth(Breakdown[i][1]))).val,
                            5)
            /\ DOMAIN Breakdown[i][2]
                   = {"total_prs", "merged", "closed_not_merged", "still_open",
                      "avg_time_to_close_hours", "work_items", "code_changes",
                      "conventional_commits", "top_authors"}

\* a breakdown with a month of more than five authors, whose records
\* reference work items and carry a commit type, next to a second month
C12_Witness ==
    /\ BreakdownCalled
    /\ Len(Breakdown) = 2
    /\ \E i \in 1..2 :
           /\ Len(Breakdown[i][2].top_authors) = 5
           /\ Len(get_prs_by_author(MonthRecords(KeyMonth(Breakdown[i][1]))).val) > 5
           /\ Breakdown[i][2].work_items.total_github_issues = 2
           /\ Breakdown[i][2].conventional_commits.feat_count > 5

----------------------------------------------------------------------------
\* the author and the repository name of record i, None when the field is
\* absent or None
AuthorOf(i) ==
    IF "author" \in DOMAIN pr_data[i] THEN pr_data[i].author ELSE None
RepoOf(i) ==
    IF "repo" \in DOMAIN pr_data[i] THEN pr_data[i].repo ELSE None

FirstWith(wanted, name) == CHOOSE i \in 1..Len(wanted) :
    /\ wanted[i] = Some(name)
    /\ \A j \in 1..(i - 1) : wanted[j] # Some(name)

\* map counts every record under its name wanted[i], leaves out the records
\* without a name, and is ordered by descending count, equal counts in
\* first-encountered order
GroupingOf(map, wanted) ==
    /\ DictKeys(map) = {wanted[i][1] : i \in {j \in 1..Len(wanted) : wanted[j] # None}}
    /\ Len(map) = Cardinality(DictKeys(map))
    /\ \A k \in 1..Len(map) :
           map[k][2] = Cardinality({i \in 1..Len(wanted) : wanted[i] = Some(map[k][1])})
    /\ \A k, l \in 1..Len(map) :
           k < l => \/ map[k][2] > map[l][2]
                    \/ /\ map[k][2] = map[l][2]
                       /\ FirstWith(wanted, map[k][1]) < FirstWith(wanted, map[l][1])

(* C13: get_prs_by_author and get_prs_by_repo return a count map that      *)
(* counts every record with an author / repository name once under that    *)
(* name, ordered by descending count (equal counts first-encountered); a   *)
(* record whose author / repository is absent or None is left out: it is   *)
(* not counted under None or a placeholder and the query does not raise.   *)
C13_GroupingsExcludeMissing ==
    /\ Called("get_prs_by_author") =>
           /\ IsOk(Returned("get_prs_by_author"))
           /\ GroupingOf(Returned("get_prs_by_author").val,
                         [i \in 1..Len(pr_data) |-> AuthorOf(i)])
    /\ Called("get_prs_by_repo") =>
           /\ \A k \in 1..Len(Returned("get_prs_by_repo")) :
                  Returned("get_prs_by_repo")[k][1] # None
           /\ GroupingOf([k \in 1..Len(Returned("get_prs_by_repo")) |->
                            <<Returned("get_prs_by_repo")[k][1][1],
                              Returned("get_prs_by_repo")[k][2]>>],
                         [i \in 1..Len(pr_data) |-> RepoOf(i)])

----------------------------------------------------------------------------
Zero == Rat(0, 1)

(* C14: over an empty collection no query raises; every count is 0; every  *)
(* average and percentage (code-change averages,                           *)
(* percentage_with_work_items, percentage_with_conventional, merged_rate,  *)
(* avg_lines_per_pr) is 0; mean and median time-to-close and               *)
(* feat_fix_ratio are None; get_prs_per_month, get_prs_by_author,          *)
(* get_prs_by_repo and get_monthly_breakdown return empty mappings.        *)
C14_EmptyCollection ==
    pr_data = <<>> =>
        /\ \A q \in {"get_total_prs", "get_merged_prs_count",
                      "get_closed_prs_count", "get_open_prs_count"} :
               Called(q) => Returned(q) = 0
        /\ \A q \in {"get_average_time_to_close", "get_median_time_to_close"} :
               Called(q) => Returned(q) = None
        /\ Called("get_prs_per_month") => Returned("get_prs_per_month") = <<>>
        /\ Called("get_prs_by_repo") => Returned("get_prs_by_repo") = <<>>
        /\ Called("get_prs_by_author") => Returned("get_prs_by_author") = Ok(<<>>)
        /\ Called("get_monthly_breakdown") =>
               Returned("get_monthly_breakdown") = Ok(<<>>)
        /\ Called("get_work_item_analysis") =>
               Returned("get_work_item_analysis")
                   = Ok([total_github_issues |-> 0, total_jira_tickets |-> 0,
                         prs_with_work_items |-> 0, prs_without_work_items |-> 0,
                         percentage_with_work_items |-> Zero])
        /\ Called("get_code_change_stats") =>
               Returned("get_code_change_stats")
                   = [total_additions |-> 0, total_deletions |-> 0,
                      total_files_changed |-> 0, avg_additions_per_pr |-> Zero,
                      avg_deletions_per_pr |-> Zero, avg_files_per_pr |-> Zero]
        /\ Called("get_conventional_commits_analysis") =>
               Returned("get_conventional_commits_analysis")
                   = Ok([commit_types |-> <<>>, prs_with_conventional_commits |-> 0,
                         percentage_with_conventional |-> Zero,
                         total_typed_commits |-> 0, feat_count |-> 0,
                         fix_count |-> 0, feat_fix_ratio |-> None])
        /\ Called("get_business_insights") =>
               /\ IsOk(Returned("get_business_insights"))
               /\ Returned("get_business_insights").val.velocity_metrics.total_prs = 0
               /\ Returned("get_business_insights").val.velocity_metrics.merged_rate = Zero
               /\ Returned("get_business_insights").val.velocity_metrics.avg_time_to_close_hours = None
               /\ Returned("get_business_insights").val.productivity_metrics
                      = [avg_lines_per_pr |-> Zero, total_code_changes |-> 0]

\* the empty collection after get_business_insights, get_monthly_breakdown
\* and get_average_time_to_close
C14_Witness ==
    /\ pr_data = <<>>
    /\ Called("get_business_insights")
    /\ Called("get_monthly_breakdown")
    /\ Called("get_average_time_to_close")

----------------------------------------------------------------------------
----------------------------------------------------------------------------
\* the record with its missing optional fields filled in: no description
\* as empty text, no commit_messages as an empty list, no author as None
WithField(pr, k, v) ==
    [f \in DOMAIN pr \cup {k} |-> IF f \in DOMAIN pr THEN pr[f] ELSE v]
Filled(pr) ==
    LET r == WithField(WithField(WithField(pr, "description", Some(<<>>)),
                                 "commit_messages", <<>>),
                       "author", None)
    IN IF r.description = None THEN [r EXCEPT !.description = Some(<<>>)] ELSE r
FilledData == [i \in 1..Len(pr_data) |-> Filled(pr_data[i])]

(* C15: a record whose optional fields are missing makes no query raise:   *)
(* an absent or None description counts as empty text in the work-item and *)
(* commit-type analysis, an absent commit_messages list as no messages, an *)
(* absent author or repository only leaves the record out of that          *)
(* grouping, and every other query still counts the record.                *)
C15_MissingOptionalFields ==
    /\ Called("get_work_item_analysis") =>
           Returned("get_work_item_analysis") = get_work_item_analysis(FilledData)
    /\ Called("get_conventional_commits_analysis") =>
           Returned("get_conventional_commits_analysis")
               = get_conventional_commits_analysis(FilledData)
    /\ Called("get_prs_by_author") =>
           Returned("get_prs_by_author") = get_prs_by_author(FilledData)
    /\ Called("get_prs_by_repo") =>
           Returned("get_prs_by_repo") = get_prs_by_repo(FilledData)
    /\ Called("get_total_prs") => Returned("get_total_prs") = Len(pr_data)

----------------------------------------------------------------------------
InsightsCalled ==
    Called("get_business_insights") /\ IsOk(Returned("get_business_insights"))
Insights == Returned("get_business_insights").val

(* C18: the cost savings of get_business_insights, at the hourly rate 75:  *)
(* bug_fixes is fix_count * 4 * 75, performance_improvements is the count  *)
(* of perf tokens * 8 * 75, test_additions is the count of test tokens     *)
(* * 2 * 75, total is their sum; the counts are those of the frequency     *)
(* table of get_conventional_commits_analysis over the same collection,    *)
(* fix_count including the tokens normalized from hotfix.                  *)
C18_CostSavings ==
    (InsightsCalled /\ AnalysisCalled) =>
        /\ Analysis.fix_count = DictGet(Analysis.commit_types, Fix, 0)
        /\ Insights.estimated_cost_savings.bug_fixes = Analysis.fix_count * 300
        /\ Insights.estimated_cost_savings.performance_improvements
               = DictGet(Analysis.commit_types, <<"p", "e", "r", "f">>, 0) * 600
        /\ Insights.estimated_cost_savings.test_additions
               = DictGet(Analysis.commit_types, <<"t", "e", "s", "t">>, 0) * 150
        /\ Insights.estimated_cost_savings.total
               = Insights.estimated_cost_savings.bug_fixes
                 + Insights.estimated_cost_savings.performance_improvements
                 + Insights.estimated_cost_savings.test_additions

\* savings of a perf title and a test title, each with a Hotfix commit
C18_Witness ==
    /\ InsightsCalled
    /\ AnalysisCalled
    /\ Insights.estimated_cost_savings.bug_fixes = 600
    /\ Insights.estimated_cost_savings.performance_improvements = 600
    /\ Insights.estimated_cost_savings.test_additions = 150
    /\ Insights.estimated_cost_savings.total = 1350

(* C19: velocity_score is high iff the mean time-to-close is defined and   *)
(* below 48 hours, medium iff it is defined, at least 48 and below 168,    *)
(* and low otherwise: at 168 or more, or undefined because no record has   *)
(* a time-to-close; exactly 48 is medium and exactly 168 is low.           *)
C19_VelocityScore ==
    InsightsCalled =>
        Insights.velocity_metrics.velocity_score =
            IF PresentTimes(pr_data) = <<>> THEN "low"
            ELSE IF SumSeq(PresentTimes(pr_data)) < 48 * Len(PresentTimes(pr_data))
            THEN "high"
            ELSE IF SumSeq(PresentTimes(pr_data)) < 168 * Len(PresentTimes(pr_data))
            THEN "medium"
            ELSE "low"

----------------------------------------------------------------------------
DataCalled == Called("extract_pr_data")
DataArg == Returned("extract_pr_data").arg
DataOut == Returned("extract_pr_data").out

\* the data-model invariant of a record, and the handling of a missing
\* body and a missing user
RecordInvariant(pr, data) ==
    /\ data.time_to_close_hours # None <=> pr.closed_at # None
    /\ pr.closed_at # None =>
           data.time_to_close_hours[1][1] * 3600
               = (pr.closed_at[1] - pr.created_at) * data.time_to_close_hours[1][2]
    /\ data.description # None
    /\ pr.body = None => data.description = Some(<<>>)
    /\ pr.user = None => data.author = None

FailsReading(pr) == \E i \in 1..Len(pr.commits) : "raises" \in DOMAIN pr.commits[i]

\* the non-empty messages of the reads before the first one that raises
MessagesBeforeFailure(reads) ==
    LET ok == {i \in 1..Len(reads) :
                 \A j \in 1..i : "raises" \notin DOMAIN reads[j]}
        kept == SelectSeq(SubSeq(reads, 1, Cardinality(ok)),
                          LAMBDA r : r.message \notin {None, Some(<<>>)})
    IN [i \in 1..Len(kept) |-> kept[i].message[1]]

----------------------------------------------------------------------------
(* Claims about the repositories and pull requests the client lists *)

ReposCalled == Called("get_user_repos_in_org")
Org == Returned("get_organization")
ReposOut == Returned("get_user_repos_in_org")

\* the pull requests of repo can be read up to one whose author is "a"
AuthoredBy_a(repo) ==
    \E i \in 1..Len(repo.pulls) :
        /\ \A j \in 1..i : "raises" \notin DOMAIN repo.pulls[j]
        /\ repo.pulls[i].user # None
        /\ repo.pulls[i].user[1].login = AuthorName(1)

(* C26: when the lookup of the organization raises GithubException,        *)
(* get_user_repos_in_org does not raise: it returns the repositories of    *)
(* the authenticated user in which the target user authored a pull         *)
(* request.                                                                *)
C26_FallbackToUserRepos ==
    (ReposCalled /\ "raises" \in DOMAIN Org) =>
        ReposOut = Ok(SelectSeq(Org.user_repos, AuthoredBy_a))

----------------------------------------------------------------------------
\* the names of the repositories of listing rs authored by "a", each at its
\* first occurrence
RECURSIVE FirstNames(_, _)
FirstNames(rs, seen) ==
    IF rs = <<>> THEN <<>>
    ELSE IF AuthoredBy_a(Head(rs)) /\ Head(rs).full_name \notin seen
    THEN <<Head(rs).full_name>>
         \o FirstNames(Tail(rs), seen \cup {Head(rs).full_name})
    ELSE FirstNames(Tail(rs), seen)

OrgListed ==
    /\ ReposCalled
    /\ "raises" \notin DOMAIN Org
    /\ \A i \in 1..Len(Org.repos) : "raises" \notin DOMAIN Org.repos[i]

(* C27: when the organization and its repositories can be listed,          *)
(* get_user_repos_in_org returns exactly the repositories with a pull      *)
(* request by the target user, in listing order and each at most once; a   *)
(* repository whose pull requests cannot be listed is skipped.             *)
C27_OrgReposOnceInOrder ==
    OrgListed =>
        /\ IsOk(ReposOut)
        /\ [i \in 1..Len(ReposOut.val) |-> ReposOut.val[i].full_name]
               = FirstNames(Org.repos, {})

----------------------------------------------------------------------------
PullsCalled == Called("get_prs_for_user_in_repo")
Pulls == Returned("get_pulls")

\* a pull request by "a" created in 2023
InYear2023(read) ==
    /\ "raises" \notin DOMAIN read
    /\ read.user # None
    /\ read.user[1].login = AuthorName(1)
    /\ read.created_at >= 0
    /\ read.created_at <= 31535999

(* C28: get_prs_for_user_in_repo returns exactly the pull requests of the  *)
(* closed listing followed by the open listing whose author is the target  *)
(* user and whose created_at lies in the year, whatever the order of the   *)
(* listings.                                                               *)
C28_ExactlyThePullsOfTheYear ==
    PullsCalled =>
        Returned("get_prs_for_user_in_repo")
            = Ok(SelectSeq(Pulls.closed \o Pulls.open, InYear2023))

----------------------------------------------------------------------------
\* the first word of text is a type word, in any case
LeadingTypeWord(text) ==
    \E k \in 1..Len(TypeAlternatives) :
        /\ LitAtIgnoreCase(text, 1, TypeAlternatives[k])
        /\ RunEnd(text, 1, UpperClass \cup LowerClass)
               = Len(TypeAlternatives[k]) + 1

(* C29: a title or commit message contributes a commit-type token only     *)
(* when its whole first word is a type word: for a record with an empty    *)
(* description, extract_conventional_commit_types returns as many tokens   *)
(* as the title and the commit messages have a type word as first word.    *)
C29_LeadingTokenIsWholeWord ==
    (ExtractCalled /\ ExtractArg.description = Some(<<>>)) =>
        /\ IsOk(ExtractOut)
        /\ Len(ExtractOut.val)
               = Cardinality({i \in 1..Len(ArgMessages) :
                                 LeadingTypeWord(ArgMessages[i])})
                 + (IF LeadingTypeWord(ExtractArg.title) THEN 1 ELSE 0)

----------------------------------------------------------------------------
\* the sum over the months of the value f reads from a month's sub-map
OverMonths(f(_)) == SumSeq([i \in 1..Len(Breakdown) |-> f(Breakdown[i][2])])

(* C30: the months partition the collection: summed over the month keys    *)
(* of get_monthly_breakdown, the values merged, closed_not_merged,         *)
(* still_open, prs_with_work_items, prs_with_conventional_commits and the  *)
(* count of every commit type are the values of the whole collection, and  *)
(* the records of the sub-maps are as many as the collection holds.        *)
C30_MonthsAreAdditive ==
    BreakdownCalled =>
        /\ OverMonths(LAMBDA e : e.merged) = get_merged_prs_count(pr_data)
        /\ OverMonths(LAMBDA e : e.closed_not_merged)
               = get_closed_prs_count(pr_data)
        /\ OverMonths(LAMBDA e : e.still_open) = get_open_prs_count(pr_data)
        /\ OverMonths(LAMBDA e : e.merged + e.closed_not_merged + e.still_open)
               = Len(pr_data)
        /\ OverMonths(LAMBDA e : e.work_items.prs_with_work_items)
               = get_work_item_analysis(pr_data).val.prs_with_work_items
        /\ OverMonths(LAMBDA e :
                          e.conventional_commits.prs_with_conventional_commits)
               = get_conventional_commits_analysis(pr_data)
                     .val.prs_with_conventional_commits
        /\ \A t \in Vocabulary :
               OverMonths(LAMBDA e :
                              DictGet(e.conventional_commits.commit_types, t, 0))
                   = DictGet(get_conventional_commits_analysis(pr_data)
                                 .val.commit_types, t, 0)

\* a breakdown of two months that both hold a merged pull request with a
\* work item and a commit type, the type feat being counted in each
C30_Witness ==
    /\ BreakdownCalled
    /\ Len(Breakdown) = 2
    /\ \A i \in 1..2 :
           /\ Breakdown[i][2].merged >= 1
           /\ Breakdown[i][2].work_items.prs_with_work_items >= 1
           /\ DictGet(Breakdown[i][2].conventional_commits.commit_types,
                      <<"f", "e", "a", "t">>, 0) >= 1
    /\ \E i \in 1..2 : Breakdown[i][2].total_prs >= 2

----------------------------------------------------------------------------
(* The command line *)

MainCalled == Called("main")
Run == Returned("run")
Out == Returned("main")
Given(opt) == opt # None /\ opt[1] # <<>>
Happened(event) == \E i \in 1..Len(Out.events) : Out.events[i] = event
ApiEvents == {"GitHubPRClient", "get_user_repos_in_org", "get_prs_for_user_in_repo"}
FileEvents ==
    {"mkdir", "write raw-pr-data.json", "write data.json",
     "write by-repo-summary.md", "write aggregated-summary.md",
     "write by-repo-monthly.md", "write aggregated-monthly.md"}

\* C21: every record of the raw data file a fetch run wrote carries a
\* 'repository' field, and the run with --pr-data-file on that file groups
\* the records into the per-repository partition of the fetch run
C21_ProvenanceRoundTrip ==
    (MainCalled /\ Out.raw # None) =>
        /\ \A i \in 1..Len(Out.raw[1]) : "repository" \in DOMAIN Out.raw[1][i]
        /\ main([Run EXCEPT !.pr_data_file = Some(<<"x">>),
                            !.file = [exists |-> TRUE, records |-> Out.raw[1]],
                            !.fails = "nothing"]).pr_data_by_repo
           = Out.pr_data_by_repo

\* C22: without a token (neither --token nor GITHUB_TOKEN) and without a
\* data file the run only prints the token-required error and exits with 1:
\* no client, no fetch, no file; with a data file the run asks for no token,
\* constructs no client and makes no API call
C22_TokenGate ==
    MainCalled =>
        /\ (~Given(Run.token) /\ ~Given(Run.env) /\ ~Given(Run.pr_data_file))
           => /\ Out.events = <<"Error: GitHub token is required">>
              /\ Out.exit_code = 1
              /\ Out.raw = None
        /\ Given(Run.pr_data_file)
           => /\ ~Happened("Error: GitHub token is required")
              /\ \A e \in ApiEvents : ~Happened(e)

C22_Witness ==
    /\ MainCalled
    /\ ~Given(Run.token) /\ ~Given(Run.env) /\ Given(Run.pr_data_file)
    /\ Happened("Reports generated successfully!")
    /\ Out.exit_code = 0

\* C23: a run that reports success and exits 0 has created the output
\* directory and written the five reports in the order data.json,
\* by-repo-summary, aggregated-summary, by-repo-monthly, aggregated-monthly;
\* a fetch run wrote the raw data file before any report, a run on a data
\* file wrote no raw data file
C23_OutputOrdering ==
    (MainCalled /\ Out.exit_code = 0 /\ Happened("Reports generated successfully!"))
    => LET ok == CHOOSE i \in 1..Len(Out.events) :
                     Out.events[i] = "Reports generated successfully!"
           files == SelectSeq(SubSeq(Out.events, 1, ok - 1),
                              LAMBDA e : e \in FileEvents)
       IN IF Given(Run.pr_data_file)
          THEN /\ files = <<"mkdir", "write data.json",
                            "write by-repo-summary.md",
                            "write aggregated-summary.md",
                            "write by-repo-monthly.md",
                            "write aggregated-monthly.md">>
               /\ ~Happened("write raw-pr-data.json")
               /\ Out.raw = None
          ELSE /\ files = <<"mkdir", "write raw-pr-data.json", "mkdir",
                            "write data.json", "write by-repo-summary.md",
                            "write aggregated-summary.md",
                            "write by-repo-monthly.md",
                            "write aggregated-monthly.md">>
               /\ Out.raw # None

C23_Witness ==
    /\ MainCalled
    /\ ~Given(Run.pr_data_file)
    /\ Out.exit_code = 0
    /\ Happened("Reports generated successfully!")
    /\ Len(Out.pr_data_by_repo) = 2

\* the fetch of a run that passed the token gate and constructed the client
Fetching ==
    /\ MainCalled
    /\ ~Given(Run.pr_data_file)
    /\ Given(Run.token) \/ Given(Run.env)
    /\ Run.fails # "GitHubPRClient"
FoundRepos == get_user_repos_in_org(Run.org, Run.user)
FoundPrs(repo) == get_prs_for_user_in_repo(repo, Run.user, Run.year)
NothingWritten ==
    /\ Out.raw = None
    /\ ~Happened("PRAnalyzer")
    /\ \A e \in FileEvents : ~Happened(e)

\* C24: a fetch that finds no repository with contributions, or finds
\* repositories but no pull request in any of them, prints the notice and
\* ends with exit code 0 without analysis and without writing any file
C24_EarlyExits ==
    (Fetching /\ IsOk(FoundRepos)) =>
        /\ FoundRepos.val = <<>>
           => /\ Out.events[Len(Out.events)] = "No repositories found"
              /\ Out.exit_code = 0
              /\ NothingWritten
        /\ (/\ FoundRepos.val # <<>>
            /\ \A i \in 1..Len(FoundRepos.val) :
                  FoundPrs(FoundRepos.val[i]) = Ok(<<>>))
           => /\ Out.events[Len(Out.events)] = "No pull requests found"
              /\ Out.exit_code = 0
              /\ NothingWritten

C24_Witness ==
    /\ Fetching
    /\ IsOk(FoundRepos)
    /\ Len(FoundRepos.val) = 2
    /\ \A i \in 1..2 : /\ FoundRepos.val[i].closed = <<>>
                       /\ FoundRepos.val[i].open = <<>>
    /\ Out.events[Len(Out.events)] = "No pull requests found"

\* C25: a run in which the client construction, the listing of the
\* organization's repositories, the fetch of a repository's pull requests,
\* the reading of the data file or the writing of a report failed reports
\* an error and exits non-zero, never with 0 or with the success message
C25_ErrorsSurface ==
    (/\ MainCalled
     /\ \/ /\ Given(Run.pr_data_file)
           /\ \/ ~Run.file.exists
              \/ Raises(Run.file)
              \/ /\ Out.events[1] = "Loaded"
                 /\ Run.fails \in FileEvents \ {"write raw-pr-data.json"}
        \/ /\ ~Given(Run.pr_data_file)
           /\ Given(Run.token) \/ Given(Run.env)
           /\ \/ Run.fails = "GitHubPRClient"
              \/ ~IsOk(FoundRepos)
              \/ /\ Run.fails # "GitHubPRClient"
                 /\ IsOk(FoundRepos)
                 /\ \E i \in 1..Len(FoundRepos.val) :
                       /\ FoundRepos.val[i].closed # <<>>
                       /\ Raises(FoundRepos.val[i].closed[1]))
    => /\ Out.exit_code # 0
       /\ Happened("Error") \/ Happened("Error: File not found")
       /\ ~Happened("Reports generated successfully!")

====
